---- MODULE Spec2Model ----
(***************************************************************************)
(* EgomModel (EGM) codec of interstellar-armada's Blender add-ons:         *)
(* the Blender-4 exporter (io_export_egm_blender_4.py: write_egm,          *)
(* get_triangles) and the importer (io_import_egm.py: ImportEGM.execute).  *)
(*                                                                         *)
(* Numbers.  Every float of the program is an integer number of UNIT-ths   *)
(* (1e-5), so that round3 / round4 / the ':g' rendering are real           *)
(* conversions.  Integers of the file (indices, material, LOD, group       *)
(* indices) are plain integers.  Python lists are sequences; list          *)
(* positions and vertex indices stored in data keep Python's 0-based       *)
(* values and are shifted by one where a sequence is indexed.              *)
(***************************************************************************)
EXTENDS Integers, Sequences, FiniteSets, TLC

VARIABLES
    obs, min_lod, max_lod,                    \* write_egm's inputs
    pc,                                       \* position in write_egm / execute
    oi, vi,                                   \* loop positions (object, vertex / polygon)
    vstart, vindex, vertex_data, vertex_indices,
    vtext,                                    \* "vertices" array of the file
    transparent, oindex, polygon_data,        \* get_triangles: locals of the running call
    pk, vcount, prev_mat, prev_normals, prev_tr, prev_lu,
    prevMinLOD, prevMaxLOD, uvs, ttext,       \* get_triangles: emission loop
    opaque_triangles, transparent_triangles,  \* the two results in write_egm
    lod, scene_objects, outcome,              \* ImportEGM.execute
    imported_file,                            \* the file the exported objects were imported from
    file_state                                \* the output file at write_egm's path

inputVars  == <<obs, min_lod, max_lod>>
vertexVars == <<vstart, vindex, vertex_data, vertex_indices>>
gtVars     == <<transparent, oindex, polygon_data>>
emitVars   == <<pk, vcount, prev_mat, prev_normals, prev_tr, prev_lu,
                prevMinLOD, prevMaxLOD, uvs, ttext>>
streamVars == <<opaque_triangles, transparent_triangles>>
importVars == <<lod, scene_objects, outcome, imported_file>>
vars == <<inputVars, pc, oi, vi, vertexVars, vtext, gtVars, emitVars,
          streamVars, importVars, file_state>>

----------------------------------------------------------------------------
(* Numbers *)

UNIT == 100000                 \* one float unit: 1.0 = UNIT hundred-thousandths

Min(a, b) == IF a <= b THEN a ELSE b
Max(a, b) == IF a >= b THEN a ELSE b
Abs(a) == IF a < 0 THEN 0 - a ELSE a

\* Python's round(v / q) for an exact quotient: nearest integer, ties to even.
RoundHalfEven(v, q) ==
    LET f == v \div q
        r == v % q
    IN  IF 2 * r < q THEN f
        ELSE IF 2 * r > q THEN f + 1
        ELSE IF f % 2 = 0 THEN f ELSE f + 1

\* round(x * 1000) / 1000
round3(x) == RoundHalfEven(x, 100) * 100

\* round(x * 10000) / 10000
round4(x) == RoundHalfEven(x, 10) * 10

\* round(group.weight * WEIGHT_FACTOR)
get_group_index_from_group(w) == RoundHalfEven(w, 100)

RECURSIVE Digits(_)
Digits(n) == IF n < 10 THEN 1 ELSE 1 + Digits(n \div 10)

RECURSIVE Pow10(_)
Pow10(e) == IF e = 0 THEN 1 ELSE 10 * Pow10(e - 1)

\* The value denoted by the text f'{x:g}': x kept to 6 significant digits.
FormatG(x) ==
    LET a == Abs(x)
        d == Digits(a)
        q == IF d > 6 THEN Pow10(d - 6) ELSE 1
        m == RoundHalfEven(a, q) * q
    IN  IF x < 0 THEN 0 - m ELSE m

f2s3(x) == FormatG(round3(x))
f2s4(x) == FormatG(round4(x))

----------------------------------------------------------------------------
(* Sequences *)

Range(s) == {s[i] : i \in DOMAIN s}

RECURSIVE Flatten(_)
Flatten(ss) == IF ss = <<>> THEN <<>> ELSE Head(ss) \o Flatten(Tail(ss))

\* s[a:b] of Python (0-based, b exclusive, clipped to the list)
Slice(s, a, b) ==
    LET hi == Min(b, Len(s))
    IN  IF a >= hi THEN <<>> ELSE [i \in 1..(hi - a) |-> s[a + i]]

\* list.index(value): the 0-based position of the first occurrence
IndexOf(s, x) == (CHOOSE i \in DOMAIN s : s[i] = x /\ \A j \in 1..(i - 1) : s[j] # x) - 1

SeqMin(s) == CHOOSE x \in Range(s) : \A y \in Range(s) : x <= y

----------------------------------------------------------------------------
(* The scene handed to the exporter.                                       *)
(* An object is [minLOD, maxLOD, vertices, polygons]; a custom property    *)
(* that is not set is NoLOD.  A vertex is [co, transform, luminosity]: its *)
(* position and its weights in the two vertex groups, weight 0 standing    *)
(* for "no entry in the group".  A polygon is [vertices, material_index,   *)
(* uv, corner_normals, normal], uv and corner_normals listed per corner.   *)

NoLOD == 0 - 1

\* Alpha of the colour of each material slot of obs[0] (get_color(mat)[3]).
material_alpha == <<UNIT, UNIT, UNIT \div 2>>

get_lod_from_object(ob, minLOD, maxLOD) ==
    << IF ob.minLOD # NoLOD THEN Max(ob.minLOD, minLOD) ELSE minLOD,
       IF ob.maxLOD # NoLOD THEN Min(ob.maxLOD, maxLOD) ELSE maxLOD >>

\* "if obMinLOD > maxLOD or obMaxLOD < minLOD: continue"
ObjectSkipped(ob) ==
    LET l == get_lod_from_object(ob, min_lod, max_lod)
    IN  l[1] > max_lod \/ l[2] < min_lod

\* "obs[0].material_slots[p.material_index]" finds a slot; it raises
\* IndexError otherwise
HasSlot(p) == p.material_index + 1 \in DOMAIN material_alpha

IsTransparent_mut(p) == material_alpha[p.material_index + 1] <= UNIT

\* "(get_color(mat)[3] < 1)"
IsTransparent(p) == material_alpha[p.material_index + 1] < UNIT

\* get_group_index of the legacy exporter (io_export_egm.py), for a triangle:
\* i1, i2, i3 of its three vertices, "if i1 != i2 or i1 != i3: return 0"
legacy_get_group_index(ob, triangle, group) ==
    LET gi(i) == get_group_index_from_group(ob.vertices[triangle.vertices[i] + 1][group])
    IN  IF gi(1) # gi(2) \/ gi(1) # gi(3) THEN 0 ELSE gi(1)

get_group_index_mut(ob, polygon, group) ==
    LET gi(i) == get_group_index_from_group(ob.vertices[polygon.vertices[i] + 1][group])
    IN  IF \E i \in 2..3 : gi(i) # gi(1) THEN 0 ELSE gi(1)

\* get_group_index of the Blender-4 exporter: the index of the first vertex,
\* 0 if it is 0 or if a later vertex has another index
get_group_index(ob, polygon, group) ==
    LET gi(i) == get_group_index_from_group(ob.vertices[polygon.vertices[i] + 1][group])
    IN  IF gi(1) = 0 THEN 0
        ELSE IF \E i \in 2..Len(polygon.vertices) : gi(i) # gi(1) THEN 0
        ELSE gi(1)

----------------------------------------------------------------------------
(* write_egm: the vertex pass *)

add_vertex_mut(vd, vix, v, obMinLOD, obMaxLOD) ==
    LET vdata == <<round3(v.co[1]), round3(v.co[2]), round3(v.co[3]), obMinLOD, obMaxLOD>>
        hits == {i \in DOMAIN vd : vd[i][1] = vdata[1] /\ vd[i][2] = vdata[2] /\ vd[i][3] = vdata[3]}
    IN  IF hits # {}
        THEN LET i == CHOOSE h \in hits : \A g \in hits : h <= g
             IN  [vertex_data    |-> [vd EXCEPT ![i] = <<vd[i][1], vd[i][2], vd[i][3],
                                                         obMinLOD, obMaxLOD>>],
                  vertex_indices |-> Append(vix, i - 1)]
        ELSE [vertex_data |-> Append(vd, vdata), vertex_indices |-> Append(vix, Len(vd))]

add_vertex(vd, vix, v, obMinLOD, obMaxLOD) ==
    LET vdata == <<round3(v.co[1]), round3(v.co[2]), round3(v.co[3]), obMinLOD, obMaxLOD>>
        hits == {i \in DOMAIN vd : vd[i][1] = vdata[1] /\ vd[i][2] = vdata[2] /\ vd[i][3] = vdata[3]}
    IN  IF hits # {}
        THEN LET i == CHOOSE h \in hits : \A g \in hits : h <= g
             IN  [vertex_data    |-> [vd EXCEPT ![i] = <<vd[i][1], vd[i][2], vd[i][3],
                                                         Min(vd[i][4], obMinLOD),
                                                         Max(vd[i][5], obMaxLOD)>>],
                  vertex_indices |-> Append(vix, i - 1)]
        ELSE [vertex_data |-> Append(vd, vdata), vertex_indices |-> Append(vix, Len(vd))]

RECURSIVE VisitObjects_mut(_, _, _)
VisitObjects_mut(i, vs, vx) ==
    IF i > Len(obs) THEN [oi |-> i, vstart |-> vs, vindex |-> vx]
    ELSE IF Len(obs[i].vertices) = 0 THEN VisitObjects_mut(i + 1, Append(vs, vx), vx)
    ELSE [oi |-> i, vstart |-> Append(vs, vx), vindex |-> vx + Len(obs[i].vertices)]

\* "for ob in obs:" up to the first vertex of the next object that has one
RECURSIVE VisitObjects(_, _, _)
VisitObjects(i, vs, vx) ==
    IF i > Len(obs) THEN [oi |-> i, vstart |-> vs, vindex |-> vx]
    ELSE IF ObjectSkipped(obs[i]) THEN VisitObjects(i + 1, vs, vx)
    ELSE IF Len(obs[i].vertices) = 0 THEN VisitObjects(i + 1, Append(vs, vx), vx)
    ELSE [oi |-> i, vstart |-> Append(vs, vx), vindex |-> vx + Len(obs[i].vertices)]

RECURSIVE WriteVertexRecords_mut(_, _, _)
WriteVertexRecords_mut(vd, pMin, pMax) ==
    IF vd = <<>> THEN <<>>
    ELSE LET vertex == Head(vd)
             vt == <<FormatG(vertex[1]), FormatG(vertex[2]), FormatG(vertex[3])>>
         IN  IF vertex[4] # pMin \/ vertex[5] # pMax
             THEN <<vt \o <<vertex[4], vertex[5]>> >>
                      \o WriteVertexRecords_mut(Tail(vd), pMin, pMax)
             ELSE <<vt>> \o WriteVertexRecords_mut(Tail(vd), pMin, pMax)

\* The loop writing vtext, with its carried prevMinLOD / prevMaxLOD
RECURSIVE WriteVertexRecords(_, _, _)
WriteVertexRecords(vd, pMin, pMax) ==
    IF vd = <<>> THEN <<>>
    ELSE LET vertex == Head(vd)
             vt == <<FormatG(vertex[1]), FormatG(vertex[2]), FormatG(vertex[3])>>
         IN  IF vertex[4] # pMin \/ vertex[5] # pMax
             THEN <<vt \o <<vertex[4], vertex[5]>> >>
                      \o WriteVertexRecords(Tail(vd), vertex[4], vertex[5])
             ELSE <<vt>> \o WriteVertexRecords(Tail(vd), pMin, pMax)

\* write_egm up to the first add_vertex call: open(path, "w") creates or
\* truncates the file, the header and the palette are written, the vertex
\* lists are empty.  Without an object "obs[0].scale[0]" raises IndexError
\* after the file was opened.
Begin ==
    /\ pc = "start"
    /\ file_state' = "open"
    /\ IF obs = <<>>
       THEN /\ pc' = "export_failed"
            /\ UNCHANGED <<oi, vi, vstart, vindex>>
       ELSE LET r == VisitObjects(1, <<>>, 0)
            IN  /\ oi' = r.oi
                /\ vi' = 1
                /\ vstart' = r.vstart
                /\ vindex' = r.vindex
                /\ pc' = IF r.oi > Len(obs) THEN "write_vertices" ELSE "vertex_pass"
    /\ vertex_data' = <<>>
    /\ vertex_indices' = <<>>
    /\ UNCHANGED <<inputVars, vtext, gtVars, emitVars, streamVars, importVars>>

\* One call add_vertex(v, obMinLOD, obMaxLOD) of the loop over the objects
AddVertex ==
    /\ pc = "vertex_pass"
    /\ LET ob == obs[oi]
           l  == get_lod_from_object(ob, min_lod, max_lod)
           a  == add_vertex(vertex_data, vertex_indices, ob.vertices[vi], l[1], l[2])
           r  == VisitObjects(oi + 1, vstart, vindex)
       IN  /\ vertex_data' = a.vertex_data
           /\ vertex_indices' = a.vertex_indices
           /\ IF vi < Len(ob.vertices)
              THEN /\ vi' = vi + 1
                   /\ UNCHANGED <<oi, vstart, vindex, pc>>
              ELSE /\ vi' = 1
                   /\ oi' = r.oi
                   /\ vstart' = r.vstart
                   /\ vindex' = r.vindex
                   /\ pc' = IF r.oi > Len(obs) THEN "write_vertices" ELSE "vertex_pass"
    /\ UNCHANGED <<inputVars, file_state, vtext, gtVars, emitVars, streamVars, importVars>>

\* The loop over vertex_data that renders the "vertices" array
WriteVertices ==
    /\ pc = "write_vertices"
    /\ vtext' = WriteVertexRecords(vertex_data, min_lod, max_lod)
    /\ transparent' = FALSE
    /\ pc' = "call_get_triangles"
    /\ UNCHANGED <<inputVars, file_state, oi, vi, vertexVars, oindex, polygon_data, emitVars,
                   streamVars, importVars>>

----------------------------------------------------------------------------
(* get_triangles: collecting polygon_data *)

\* Checks if two polygon data entries have the same information except for
\* their LOD ranges
polygons_match(p1, p2) ==
    /\ Len(p1) = Len(p2)
    /\ \A i \in 1..(Len(p1) - 2) : p1[i] = p2[i]

index_map_mut(nv, index) == [i \in 1..nv |-> i - 1]

\* index_map of add_polygon: output corner i (0-based) -> source corner
index_map(nv, index) ==
    [i \in 1..nv |-> IF i - 1 < nv - index THEN index + (i - 1) ELSE (i - 1) - (nv - index)]

canonical_index_mut(vix, start, i) == i + start

\* "vertex_indices[i + start]": the index in the common vertex array of
\* vertex i of the object whose vertices start at `start`
canonical_index(vix, start, i) == vix[i + start + 1]

\* The flat entry pdata that add_polygon compiles for polygon p of object ob
\* (start = vstart[oindex]):
\*   [vcount, start index, deltas.., material, uv.., split flag, normals..,
\*    tr, lu, minLOD, maxLOD]
polygon_entry(p, obMinLOD, obMaxLOD, ob, start, vix) ==
    LET nv == Len(p.vertices)
        vertices == [i \in 1..nv |-> canonical_index(vix, start, p.vertices[i])]
        index == IndexOf(vertices, SeqMin(vertices))
        im == index_map(nv, index)
        normals == [i \in 1..nv |-> p.corner_normals[im[i] + 1]]
        has_split_normals == ~ \A i \in 1..nv : normals[i] = p.normal
    IN  <<nv, vertices[index + 1]>>
        \o [i \in 1..(nv - 1) |-> vertices[im[i + 1] + 1] - vertices[index + 1]]
        \o <<p.material_index>>
        \o Flatten([i \in 1..nv |-> <<round3(p.uv[im[i] + 1][1]),
                                      round3(UNIT - p.uv[im[i] + 1][2])>>])
        \o <<IF has_split_normals THEN 1 ELSE 0>>
        \o (IF has_split_normals
            THEN Flatten([i \in 1..nv |-> <<round4(normals[i][1]), round4(normals[i][2]),
                                            round4(normals[i][3])>>])
            ELSE <<round4(p.normal[1]), round4(p.normal[2]), round4(p.normal[3])>>)
        \o <<get_group_index(ob, p, "transform"), get_group_index(ob, p, "luminosity")>>
        \o <<obMinLOD, obMaxLOD>>

add_polygon_mut(pd, pdata) ==
    LET n == Len(pdata)
        i == Len(pd)
    IN  IF pd # <<>> /\ polygons_match(pdata, pd[i])
        THEN [pd EXCEPT ![i] = [pd[i] EXCEPT ![n - 1] = Min(pd[i][n - 1], pdata[n - 1]),
                                            ![n] = Max(pd[i][n], pdata[n])]]
        ELSE Append(pd, pdata)

\* "for p2 in polygon_data: if polygons_match(pdata, p2): ... return" and the
\* final append
add_polygon(pd, pdata) ==
    LET hits == {i \in DOMAIN pd : polygons_match(pdata, pd[i])}
        n == Len(pdata)
    IN  IF hits # {}
        THEN LET i == CHOOSE h \in hits : \A g \in hits : h <= g
                 m == Len(pd[i])
             IN  [pd EXCEPT ![i] = [pd[i] EXCEPT ![m - 1] = Min(pd[i][m - 1], pdata[n - 1]),
                                                 ![m] = Max(pd[i][m], pdata[n])]]
        ELSE Append(pd, pdata)

\* The two nested loops "for ob in obs: ... for p in ob.data.polygons:" up to
\* the next polygon that is passed to add_polygon; error where the lookup of
\* the polygon's material slot raises
RECURSIVE FindPolygon_mut(_, _, _, _)
FindPolygon_mut(i, j, ox, tr) ==
    IF i > Len(obs) THEN [oi |-> i, vi |-> 1, oindex |-> ox, error |-> FALSE]
    ELSE IF ObjectSkipped(obs[i]) THEN FindPolygon_mut(i + 1, 1, ox + 1, tr)
    ELSE IF j > Len(obs[i].polygons) THEN FindPolygon_mut(i + 1, 1, ox + 1, tr)
    ELSE IF ~ HasSlot(obs[i].polygons[j]) THEN [oi |-> i, vi |-> j, oindex |-> ox, error |-> TRUE]
    ELSE IF IsTransparent(obs[i].polygons[j]) # tr THEN FindPolygon_mut(i, j + 1, ox, tr)
    ELSE [oi |-> i, vi |-> j, oindex |-> ox, error |-> FALSE]

RECURSIVE FindPolygon(_, _, _, _)
FindPolygon(i, j, ox, tr) ==
    IF i > Len(obs) THEN [oi |-> i, vi |-> 1, oindex |-> ox, error |-> FALSE]
    ELSE IF ObjectSkipped(obs[i]) THEN FindPolygon(i + 1, 1, ox, tr)
    ELSE IF j > Len(obs[i].polygons) THEN FindPolygon(i + 1, 1, ox + 1, tr)
    ELSE IF ~ HasSlot(obs[i].polygons[j]) THEN [oi |-> i, vi |-> j, oindex |-> ox, error |-> TRUE]
    ELSE IF IsTransparent(obs[i].polygons[j]) # tr THEN FindPolygon(i, j + 1, ox, tr)
    ELSE [oi |-> i, vi |-> j, oindex |-> ox, error |-> FALSE]

\* Entry of get_triangles(obs, vstart, vertex_indices, minLOD, maxLOD, transparent)
CallGetTriangles ==
    /\ pc = "call_get_triangles"
    /\ polygon_data' = <<>>
    /\ LET r == FindPolygon(1, 1, 0, transparent)
       IN  /\ oi' = r.oi
           /\ vi' = r.vi
           /\ oindex' = r.oindex
           /\ pc' = IF r.error THEN "export_failed" ELSE "collect"
    /\ UNCHANGED <<inputVars, file_state, vertexVars, vtext, transparent, emitVars, streamVars,
                   importVars>>

\* One call add_polygon(p, obMinLOD, obMaxLOD, ob, uv, split_normals, tra, lum)
AddPolygon ==
    /\ pc = "collect"
    /\ oi <= Len(obs)
    /\ LET ob == obs[oi]
           l  == get_lod_from_object(ob, min_lod, max_lod)
           pdata == polygon_entry(ob.polygons[vi], l[1], l[2], ob, vstart[oindex + 1],
                                  vertex_indices)
           r  == FindPolygon(oi, vi + 1, oindex, transparent)
       IN  /\ polygon_data' = add_polygon(polygon_data, pdata)
           /\ oi' = r.oi
           /\ vi' = r.vi
           /\ oindex' = r.oindex
           /\ pc' = IF r.error THEN "export_failed" ELSE "collect"
    /\ UNCHANGED <<inputVars, file_state, vertexVars, vtext, transparent, emitVars, streamVars,
                   importVars>>

----------------------------------------------------------------------------
(* get_triangles: the emission loop over polygon_data.                     *)
(* A written record is the sequence of its sub-arrays, each the sequence   *)
(* of the numbers that its text denotes.                                   *)

\* The importer's start value of the carried count ("prevPoints = 3")
InitialVcount_mut == 3

\* Start values of the carried state ("vcount = 0", "prev_mat = -1", ...)
InitialVcount == 0
InitialPrevMat == 0 - 1
InitialPrevNormals == <<>>
InitialPrevGroup_mut == 0
InitialPrevGroup == 0 - 1
InitialPrevLOD == 0 - 1
InitialUvs == <<>>

\* Positions (pdi, 0-based) of the fields of a polygon_data entry
MatPos(polygon) == polygon[1] + 1
UvPos(polygon) == polygon[1] + 2
SplitPos(polygon) == polygon[1] + 2 + 2 * polygon[1]
NormalsPos(polygon) == SplitPos(polygon) + 1
EntryNormals(polygon) ==
    Slice(polygon, NormalsPos(polygon),
          NormalsPos(polygon) + (IF polygon[SplitPos(polygon) + 1] = 1
                                 THEN 3 * polygon[1] ELSE 3))
GroupPos(polygon) == NormalsPos(polygon) + Len(EntryNormals(polygon))
EntryUvs(polygon) == Slice(polygon, UvPos(polygon), UvPos(polygon) + 2 * polygon[1])
EntryMat(polygon) == polygon[MatPos(polygon) + 1]
EntryGroups(polygon) == <<polygon[GroupPos(polygon) + 1], polygon[GroupPos(polygon) + 2]>>
EntryLOD(polygon) == <<polygon[Len(polygon) - 1], polygon[Len(polygon)]>>
EntryIndices(polygon) == Slice(polygon, 1, polygon[1] + 1)

CountChanged_mut(polygon, vc) == polygon[1] > vc

\* "if polygon[0] != vcount"
CountChanged(polygon, vc) == polygon[1] # vc

\* "if polygon[pdi] != prev_mat"
MaterialChanged(polygon, pm) == EntryMat(polygon) # pm

UvChanged_mut(polygon, u) == Len(u) # 2 * polygon[1]

\* "if (len(uvs) != vcount*2 or not all([...]))"
UvChanged(polygon, u) ==
    \/ Len(u) # 2 * polygon[1]
    \/ \E i \in 1..(2 * polygon[1]) : u[i] # EntryUvs(polygon)[i]

\* "if polygon[-2] != prevMinLOD or polygon[-1] != prevMaxLOD"
LODChanged(polygon, pMin, pMax) == EntryLOD(polygon)[1] # pMin \/ EntryLOD(polygon)[2] # pMax

\* "if (len(prev_normals) != len(normals) or not all([...]))"
NormalsChanged(polygon, pn) ==
    \/ Len(pn) # Len(EntryNormals(polygon))
    \/ \E i \in 1..Len(EntryNormals(polygon)) : pn[i] # EntryNormals(polygon)[i]

\* "if tr == prev_tr and lu == prev_lu: ... else:"
GroupsChanged(polygon, ptr, plu) ==
    ~ (EntryGroups(polygon)[1] = ptr /\ EntryGroups(polygon)[2] = plu)

MapSeq(Op(_), s) == [i \in DOMAIN s |-> Op(s[i])]

\* The first sub-array "[" ... "]" of a record
FirstSubArray(polygon, vc, pm, u, pMin, pMax) ==
    (IF CountChanged(polygon, vc) THEN <<0 - polygon[1]>> ELSE <<>>)
    \o EntryIndices(polygon)
    \o (IF MaterialChanged(polygon, pm) THEN <<EntryMat(polygon)>> ELSE <<>>)
    \o (IF UvChanged(polygon, u) THEN MapSeq(f2s3, EntryUvs(polygon)) ELSE <<>>)
    \o (IF LODChanged(polygon, pMin, pMax) THEN EntryLOD(polygon) ELSE <<>>)

RestSubArrays_mut(polygon, pn, ptr, plu) ==
    (IF NormalsChanged(polygon, pn) THEN <<MapSeq(f2s4, EntryNormals(polygon))>> ELSE <<>>)
    \o (IF GroupsChanged(polygon, ptr, plu) THEN <<EntryGroups(polygon)>> ELSE <<>>)

\* What follows the first sub-array: ",[" normals "," tr "," lu "]" with the
\* parts that are written
RestSubArrays(polygon, pn, ptr, plu) ==
    LET nw == NormalsChanged(polygon, pn)
        gw == GroupsChanged(polygon, ptr, plu)
    IN  IF nw \/ gw
        THEN << (IF nw THEN MapSeq(f2s4, EntryNormals(polygon)) ELSE <<>>)
                \o (IF gw THEN EntryGroups(polygon) ELSE <<>>) >>
        ELSE <<>>

StartEmit_mut ==
    /\ pc = "collect"
    /\ oi > Len(obs)
    /\ ttext' = <<>>
    /\ IF transparent
       THEN UNCHANGED <<vcount, prev_mat, prev_normals, prev_lu, prev_tr, prevMinLOD,
                        prevMaxLOD, uvs>>
       ELSE /\ vcount' = InitialVcount
            /\ prev_mat' = InitialPrevMat
            /\ prev_normals' = InitialPrevNormals
            /\ prev_lu' = InitialPrevGroup
            /\ prev_tr' = InitialPrevGroup
            /\ prevMinLOD' = InitialPrevLOD
            /\ prevMaxLOD' = InitialPrevLOD
            /\ uvs' = InitialUvs
    /\ pk' = 1
    /\ pc' = "emit"
    /\ UNCHANGED <<inputVars, file_state, oi, vi, vertexVars, vtext, gtVars, streamVars, importVars>>

\* "ttext: list[str] = [] ... uvs: list[float] = []" (lines 244-252)
StartEmit ==
    /\ pc = "collect"
    /\ oi > Len(obs)
    /\ ttext' = <<>>
    /\ vcount' = InitialVcount
    /\ prev_mat' = InitialPrevMat
    /\ prev_normals' = InitialPrevNormals
    /\ prev_lu' = InitialPrevGroup
    /\ prev_tr' = InitialPrevGroup
    /\ prevMinLOD' = InitialPrevLOD
    /\ prevMaxLOD' = InitialPrevLOD
    /\ uvs' = InitialUvs
    /\ pk' = 1
    /\ pc' = "emit"
    /\ UNCHANGED <<inputVars, file_state, oi, vi, vertexVars, vtext, gtVars, streamVars, importVars>>

\* One iteration of "for polygon in polygon_data:"
EmitRecord ==
    /\ pc = "emit"
    /\ pk <= Len(polygon_data)
    /\ LET polygon == polygon_data[pk]
       IN  /\ ttext' = Append(ttext,
                  <<FirstSubArray(polygon, vcount, prev_mat, uvs, prevMinLOD, prevMaxLOD)>>
                  \o RestSubArrays(polygon, prev_normals, prev_tr, prev_lu))
           /\ vcount' = polygon[1]
           /\ prev_mat' = EntryMat(polygon)
           /\ uvs' = EntryUvs(polygon)
           /\ prevMinLOD' = EntryLOD(polygon)[1]
           /\ prevMaxLOD' = EntryLOD(polygon)[2]
           /\ prev_normals' = EntryNormals(polygon)
           /\ prev_tr' = EntryGroups(polygon)[1]
           /\ prev_lu' = EntryGroups(polygon)[2]
    /\ pk' = pk + 1
    /\ UNCHANGED <<inputVars, file_state, pc, oi, vi, vertexVars, vtext, gtVars, streamVars, importVars>>

\* "return ','.join(ttext)" into opaque_triangles / transparent_triangles; after
\* the second call the polygons are written and the file is closed
ReturnTriangles ==
    /\ pc = "emit"
    /\ pk > Len(polygon_data)
    /\ IF transparent
       THEN /\ transparent_triangles' = ttext
            /\ pc' = "written"
            /\ file_state' = "closed"
            /\ UNCHANGED <<opaque_triangles, transparent>>
       ELSE /\ opaque_triangles' = ttext
            /\ transparent' = TRUE
            /\ pc' = "call_get_triangles"
            /\ UNCHANGED <<transparent_triangles, file_state>>
    /\ UNCHANGED <<inputVars, oi, vi, vertexVars, vtext, oindex, polygon_data, emitVars,
                   importVars>>

\* The file that write_egm leaves behind
FileVertices == vtext
FilePolygons == opaque_triangles \o transparent_triangles

----------------------------------------------------------------------------
(* ImportEGM.execute: one mesh object per LOD, from the parsed file        *)
(* data = [LOD, vertices, polygons].                                       *)

\* Field presence in the first sub-array t0, given the carried vertex count
Offs(t0) == IF t0[1] < 0 THEN 1 ELSE 0
Points(t0, prevPoints) == IF Offs(t0) = 1 THEN 0 - t0[1] ELSE prevPoints
has_mat(t0, points) == (Len(t0) - Offs(t0) - points) % 2
has_uv_mut(t0, points) ==
    IF (Len(t0) - Offs(t0) - points - has_mat(t0, points)) >= 2 THEN 2 * points ELSE 0
has_uv(t0, points) ==
    IF (Len(t0) - Offs(t0) - points - has_mat(t0, points)) > 2 THEN 2 * points ELSE 0
has_lod(t0, points) ==
    IF (Len(t0) - Offs(t0) - points - has_mat(t0, points) - has_uv(t0, points)) >= 2
    THEN 2 ELSE 0

RECURSIVE ParseVertices_mut(_, _, _, _)
ParseVertices_mut(vs, l, pMin, pMax) ==
    IF vs = <<>> THEN <<>>
    ELSE LET v == Head(vs)
             nMin == IF Len(v) >= 5 THEN v[4] ELSE pMin
             nMax == IF Len(v) >= 5 THEN v[5] ELSE pMax
         IN  (IF nMin <= l /\ nMax >= l THEN << <<v[1], v[2], v[3]>> >> ELSE <<>>)
             \o ParseVertices_mut(Tail(vs), l, nMin, nMax)

\* "Parse vertices": the list verts of one LOD
RECURSIVE ParseVertices(_, _, _, _)
ParseVertices(vs, l, pMin, pMax) ==
    IF vs = <<>> THEN <<>>
    ELSE LET v == Head(vs)
             nMin == IF Len(v) >= 5 THEN v[4] ELSE pMin
             nMax == IF Len(v) >= 5 THEN v[5] ELSE pMax
         IN  << IF nMin <= l /\ nMax >= l THEN <<v[1], v[2], v[3]>> ELSE <<0, 0, 0>> >>
             \o ParseVertices(Tail(vs), l, nMin, nMax)

\* The normals read from the second sub-array t1 for a polygon of `points`
\* corners ("len(t[1]) < 3*points" selects the shared form)
ReadNormals(t1, points) ==
    IF Len(t1) < 3 * points
    THEN [i \in 1..points |-> <<t1[1], t1[2], t1[3]>>]
    ELSE [i \in 1..points |-> <<t1[3 * i - 2], t1[3 * i - 1], t1[3 * i]>>]

\* "Parse faces": the first pass over data['polygons'].  st carries
\* prevMinLOD, prevMaxLOD, prevNormals, prevPoints and collects faces and
\* normals; error is set where Python raises (IndexError).
ParseFace(t, l, st) ==
    LET t0 == t[1]
        offs == Offs(t0)
        points == Points(t0, st.prevPoints)
        hl == has_lod(t0, points)
        nMin == IF hl # 0 THEN t0[Len(t0) - 1] ELSE st.prevMinLOD
        nMax == IF hl # 0 THEN t0[Len(t0)] ELSE st.prevMaxLOD
        inLOD == nMin <= l /\ nMax >= l
        carried == Len(t) < 2 \/ Len(t[2]) < 3
        bad == inLOD /\ (\/ offs + points > Len(t0)
                         \/ carried /\ Len(st.prevNormals) < points)
        indices == <<t0[offs + 1]>> \o [i \in 1..(points - 1) |-> t0[offs + 1] + t0[offs + 1 + i]]
        nrm == IF carried THEN [i \in 1..points |-> st.prevNormals[i]]
               ELSE ReadNormals(t[2], points)
    IN  IF bad THEN [st EXCEPT !.error = TRUE]
        ELSE [error       |-> FALSE,
              prevMinLOD  |-> nMin,
              prevMaxLOD  |-> nMax,
              prevPoints  |-> points,
              prevNormals |-> IF Len(t) > 1 /\ Len(t[2]) > 2
                              THEN ReadNormals(t[2], points) ELSE st.prevNormals,
              faces       |-> IF inLOD THEN Append(st.faces, indices) ELSE st.faces,
              normals     |-> IF inLOD THEN Append(st.normals, nrm) ELSE st.normals]

RECURSIVE ParseFaces(_, _, _)
ParseFaces(ts, l, st) ==
    IF ts = <<>> \/ st.error THEN st
    ELSE ParseFaces(Tail(ts), l, ParseFace(Head(ts), l, st))

\* "A second pass on the polygons to fill face data".  st carries i,
\* prevMinLOD, prevMaxLOD, prevmat, prev_tra, prev_lum, prevUv, prevPoints and
\* collects per face the material and the UVs, and per vertex the weights.
FillFace(t, l, st) ==
    LET t0 == t[1]
        offs == Offs(t0)
        points == Points(t0, st.prevPoints)
        hm == has_mat(t0, points)
        hu == has_uv(t0, points)
        hl == has_lod(t0, points)
        nMin == IF hl # 0 THEN t0[Len(t0) - 1] ELSE st.prevMinLOD
        nMax == IF hl # 0 THEN t0[Len(t0)] ELSE st.prevMaxLOD
        start == offs + points + hm
        nUv == IF hu # 0
               THEN [ix \in 1..points |-> <<t0[start + 2 * ix - 1], UNIT - t0[start + 2 * ix]>>]
               ELSE st.prevUv
        nMat == IF hm # 0 THEN t0[offs + points + 1] ELSE st.prevmat
        hg == Len(t) > 1 /\ Len(t[2]) % 3 = 2
        nTra == IF hg THEN t[2][Len(t[2]) - 1] ELSE st.prev_tra
        nLum == IF hg THEN t[2][Len(t[2])] ELSE st.prev_lum
        inLOD == nMin <= l /\ nMax >= l
        face == st.faces[st.i + 1]
        bad == inLOD /\ Len(nUv) < Len(face)
        put(w, g) == [v \in DOMAIN w |->
                        IF g > 0 /\ v - 1 \in Range(face) THEN g * (UNIT \div 1000) ELSE w[v]]
    IN  IF bad THEN [st EXCEPT !.error = TRUE]
        ELSE [st EXCEPT !.prevMinLOD = nMin, !.prevMaxLOD = nMax, !.prevPoints = points,
                        !.prevUv = nUv, !.prevmat = nMat, !.prev_tra = nTra, !.prev_lum = nLum,
                        !.i = IF inLOD THEN st.i + 1 ELSE st.i,
                        !.material = IF inLOD THEN Append(st.material, nMat) ELSE st.material,
                        !.uv = IF inLOD THEN Append(st.uv, [ix \in 1..Len(face) |-> nUv[ix]])
                               ELSE st.uv,
                        !.groups = IF inLOD THEN Append(st.groups, <<nTra, nLum>>) ELSE st.groups,
                        !.transform = IF inLOD THEN put(st.transform, nTra) ELSE st.transform,
                        !.luminosity = IF inLOD THEN put(st.luminosity, nLum) ELSE st.luminosity]

RECURSIVE FillFaces(_, _, _)
FillFaces(ts, l, st) ==
    IF ts = <<>> \/ st.error \/ st.i >= Len(st.faces) THEN st
    ELSE FillFaces(Tail(ts), l, FillFace(Head(ts), l, st))

Hidden_mut(l, maxLOD) == l <= maxLOD

\* "if lod < maxLOD: ob.hide_set(True)"
Hidden(l, maxLOD) == l < maxLOD

\* The body of "for lod in range(minLOD, maxLOD+1)" for the file data: the
\* object linked to the scene, or error when an exception leaves execute;
\* invalid when a face that is handed to mesh.from_pydata refers to a vertex
\* that the mesh does not have
ImportObject(data, l) ==
    LET verts == ParseVertices(data.vertices, l, data.LOD[1], data.LOD[2])
        p1 == ParseFaces(data.polygons, l,
                  [error |-> FALSE, prevMinLOD |-> data.LOD[1], prevMaxLOD |-> data.LOD[2],
                   prevPoints |-> 3, prevNormals |-> <<>>, faces |-> <<>>, normals |-> <<>>])
        p2 == FillFaces(data.polygons, l,
                  [error |-> FALSE, i |-> 0, faces |-> p1.faces,
                   prevMinLOD |-> data.LOD[1], prevMaxLOD |-> data.LOD[2],
                   prevmat |-> 0, prev_tra |-> 0, prev_lum |-> 0, prevUv |-> <<>>,
                   prevPoints |-> 3, material |-> <<>>, uv |-> <<>>, groups |-> <<>>,
                   transform |-> [v \in DOMAIN verts |-> 0],
                   luminosity |-> [v \in DOMAIN verts |-> 0]])
        invalid == \E f \in DOMAIN p1.faces : \E i \in DOMAIN p1.faces[f] :
                       p1.faces[f][i] \notin 0..(Len(verts) - 1)
    IN  IF p1.error THEN [error |-> TRUE, invalid |-> FALSE]
        ELSE IF p2.error THEN [error |-> TRUE, invalid |-> invalid]
        ELSE [error    |-> FALSE,
              invalid  |-> invalid,
              minLOD   |-> l,
              maxLOD   |-> l,
              hidden   |-> Hidden(l, data.LOD[2]),
              vertices |-> [v \in DOMAIN verts |->
                               [co |-> verts[v], transform |-> p2.transform[v],
                                luminosity |-> p2.luminosity[v]]],
              polygons |-> [f \in DOMAIN p1.faces |->
                               [vertices       |-> p1.faces[f],
                                material_index |-> p2.material[f],
                                uv             |-> p2.uv[f],
                                corner_normals |-> p1.normals[f],
                                groups         |-> p2.groups[f]]]]

NoFile == <<>>

\* json.load of the written file
FileData == [LOD |-> <<min_lod, max_lod>>, vertices |-> FileVertices, polygons |-> FilePolygons]

\* ImportEGM.execute on the written file, up to its first LOD
StartImport ==
    /\ pc = "written"
    /\ imported_file = NoFile
    /\ lod' = min_lod
    /\ scene_objects' = <<>>
    /\ outcome' = "RUNNING"
    /\ pc' = "import"
    /\ UNCHANGED <<inputVars, file_state, oi, vi, vertexVars, vtext, gtVars, emitVars, streamVars,
                   imported_file>>

\* mesh.from_pydata(verts, edges, faces) and the mesh update that follows do
\* not check the faces: with a vertex index that the mesh does not have the
\* host either keeps the mesh as it was given or reads outside of the vertex
\* array and ends the process.
FromPydataOutcomes(invalid) == IF invalid THEN {"accepted", "crashed"} ELSE {"accepted"}

\* One iteration of "for lod in range(minLOD, maxLOD+1)"
ImportLOD ==
    /\ pc = "import"
    /\ lod <= max_lod
    /\ LET ob == ImportObject(FileData, lod)
       IN  \E h \in FromPydataOutcomes(ob.invalid) :
             IF h = "crashed"
             THEN /\ outcome' = "CRASHED"
                  /\ pc' = "done"
                  /\ UNCHANGED <<lod, scene_objects>>
             ELSE IF ob.error
             THEN /\ outcome' = "ERROR"
                  /\ pc' = "done"
                  /\ UNCHANGED <<lod, scene_objects>>
             ELSE /\ scene_objects' = Append(scene_objects, ob)
                  /\ lod' = lod + 1
                  /\ UNCHANGED <<outcome, pc>>
    /\ UNCHANGED <<inputVars, file_state, oi, vi, vertexVars, vtext, gtVars, emitVars, streamVars,
                   imported_file>>

\* "return {'FINISHED'}"
FinishImport ==
    /\ pc = "import"
    /\ lod > max_lod
    /\ outcome' = "FINISHED"
    /\ pc' = "done"
    /\ UNCHANGED <<inputVars, file_state, oi, vi, vertexVars, vtext, gtVars, emitVars, streamVars,
                   lod, scene_objects, imported_file>>

\* The face normal that Blender derives for an imported polygon.  It is taken
\* to be the polygon's first custom corner normal, which keeps a shared normal
\* shared when the polygon is exported again.
ImportedFaceNormal(p) == p.corner_normals[1]

\* The objects of a finished import, as the exporter sees them when they are
\* selected in LOD order
ImportedObjects ==
    [k \in DOMAIN scene_objects |->
        [minLOD   |-> scene_objects[k].minLOD,
         maxLOD   |-> scene_objects[k].maxLOD,
         vertices |-> scene_objects[k].vertices,
         polygons |-> [f \in DOMAIN scene_objects[k].polygons |->
                          [vertices       |-> scene_objects[k].polygons[f].vertices,
                           material_index |-> scene_objects[k].polygons[f].material_index,
                           uv             |-> scene_objects[k].polygons[f].uv,
                           corner_normals |-> scene_objects[k].polygons[f].corner_normals,
                           normal         |-> ImportedFaceNormal(scene_objects[k].polygons[f])]]]]

\* ExportEGM.execute on the objects that a finished import has created, with
\* the LOD limits that ExportEGM.invoke derives from them; invoke reads
\* obs[0].name, so that there is no export without an object
ExportImported ==
    /\ pc = "done"
    /\ outcome = "FINISHED"
    /\ imported_file = NoFile
    /\ scene_objects # <<>>
    /\ imported_file' = [vertices |-> FileVertices, polygons |-> FilePolygons]
    /\ obs' = ImportedObjects
    /\ pc' = "start"
    /\ UNCHANGED <<min_lod, max_lod, file_state, oi, vi, vertexVars, vtext, gtVars, emitVars, streamVars,
                   lod, scene_objects, outcome>>

----------------------------------------------------------------------------
(* The scenes that are exported: bounded families of input objects.        *)

MaxPolys == 2     \* polygons of a scene of FieldScenes / NormalScenes
MaxRun == 5       \* polygons of the single object of a scene of RunScenes
MaxObs == 2       \* objects of a scene of LODScenes

\* Vertex positions: five distinct points, a point that rounds to the second
\* one, and a point with more than 6 significant digits
Points5 == << <<UNIT, 0, 0>>, <<UNIT, UNIT, 0>>, <<0, UNIT, 0>>, <<0, 0, UNIT>>,
              <<UNIT, UNIT, UNIT>> >>
NearSecond == <<UNIT + 40, UNIT - 30, 0>>
FarPoint == <<123456700, 0, 0>>

Vertex(co, tw, lw) == [co |-> co, transform |-> tw, luminosity |-> lw]
Vertices(cos, tw, lw) == [i \in DOMAIN cos |-> Vertex(cos[i], tw, lw)]

\* Per-corner attributes of the input polygons
UvOf(kind, i) == IF kind = "A" THEN <<12345 + 25000 * (i - 1), 50000>>
                 ELSE <<12345 + 25000 * (i - 1), 75000>>
FaceNormal(kind) == IF kind = "s2" THEN <<0, UNIT, 0>> ELSE <<0, 0, UNIT>>
CornerNormal(kind, i) == IF kind = "split" THEN <<10004 * i, 0, 99496>> ELSE FaceNormal(kind)

Polygon(cycle, mat, uvKind, nKind) ==
    [vertices       |-> cycle,
     material_index |-> mat,
     uv             |-> [i \in DOMAIN cycle |-> UvOf(uvKind, i)],
     corner_normals |-> [i \in DOMAIN cycle |-> CornerNormal(nKind, i)],
     normal         |-> FaceNormal(nKind)]

Object(lodTag, vertices, polygons) ==
    [minLOD |-> lodTag[1], maxLOD |-> lodTag[2], vertices |-> vertices,
     polygons |-> polygons]

Scene(objects, lo, hi) == [obs |-> objects, min_lod |-> lo, max_lod |-> hi]

SeqsUpTo(S, n) == UNION {[1..m -> S] : m \in 1..n}

\* Cycles whose first vertex is their smallest, the k-th polygon of a scene
\* taking the k-th one
TriCycles == << <<0, 1, 2>>, <<1, 2, 3>>, <<0, 2, 3>>, <<0, 3, 4>>, <<1, 3, 4>>, <<2, 3, 4>>,
                <<0, 1, 3>>, <<0, 1, 4>> >>
QuadCycles == << <<0, 1, 2, 3>>, <<1, 2, 3, 4>>, <<0, 2, 3, 4>>, <<0, 1, 2, 4>>,
                 <<0, 1, 3, 4>>, <<0, 3, 2, 1>>, <<0, 4, 3, 2>>, <<1, 4, 3, 2>> >>
CycleAt(nv, k) == IF nv = 3 THEN TriCycles[((k - 1) % 8) + 1] ELSE QuadCycles[((k - 1) % 8) + 1]

\* FieldScenes: one object per polygon; the polygons vary in vertex count,
\* material, UV set and LOD range
FieldItems == [nv : {3, 4}, mat : {0, 1}, uv : {"A", "B"}, lod : {<<NoLOD, NoLOD>>, <<1, 1>>}]
FieldScenes ==
    { Scene([k \in DOMAIN its |->
                Object(its[k].lod, Vertices(Points5, 0, 0),
                       <<Polygon(CycleAt(its[k].nv, k), its[k].mat, its[k].uv, "s1")>>)],
            0, 1) : its \in SeqsUpTo(FieldItems, MaxPolys) }

\* NormalScenes: one object per polygon; the polygons vary in vertex count,
\* normals and the transform weight of their object's vertices
NormalItems == [nv : {3, 4}, nrm : {"s1", "s2", "split"}, tw : {0, 73700}]
NormalScenes ==
    { Scene([k \in DOMAIN its |->
                Object(<<NoLOD, NoLOD>>, Vertices(Points5, its[k].tw, 0),
                       <<Polygon(CycleAt(its[k].nv, k), 0, "A", its[k].nrm)>>)],
            0, 0) : its \in SeqsUpTo(NormalItems, MaxPolys) }

\* RunScenes: one object with up to MaxRun polygons: triangles and quads that
\* share every attribute, and triangles that differ in all of them
RunKinds == {"tri", "quad", "other"}
RunPolygon(kind, k) ==
    IF kind = "tri" THEN Polygon(CycleAt(3, k), 0, "A", "s1")
    ELSE IF kind = "quad" THEN Polygon(CycleAt(4, k), 0, "A", "s1")
    ELSE Polygon(CycleAt(3, k), 1, "B", "s2")
RunScenes ==
    { Scene(<<Object(<<NoLOD, NoLOD>>, Vertices(Points5, 0, 0),
                     [k \in DOMAIN ks |-> RunPolygon(ks[k], k)])>>,
            0, 0) : ks \in SeqsUpTo(RunKinds, MaxRun) }

\* LODScenes: up to MaxObs objects that are LOD variants of each other, with
\* different LOD properties, exported with different LOD limits
LODTags == {<<NoLOD, NoLOD>>, <<0, 1>>, <<3, 4>>, <<2, NoLOD>>}
Meshes ==
    { [vertices |-> Vertices(SubSeq(Points5, 1, 4), 0, 0),
       polygons |-> <<Polygon(<<0, 1, 2>>, 0, "A", "s1"), Polygon(<<2, 3, 0>>, 0, "A", "s1")>>],
      [vertices |-> Vertices(<<Points5[3], NearSecond, Points5[1], Points5[2]>>, 73700, 0),
       polygons |-> <<Polygon(<<2, 1, 0>>, 0, "A", "s1"), Polygon(<<0, 1, 2>>, 2, "B", "split")>>],
      [vertices |-> Vertices(<<<<0, 0, 0>>, FarPoint, Points5[5]>>, 0, 50000),
       polygons |-> <<Polygon(<<1, 2, 0>>, 2, "A", "s2")>>] }
LODItems == [lod : LODTags, mesh : Meshes]
LODScenes ==
    { Scene([k \in DOMAIN its |-> Object(its[k].lod, its[k].mesh.vertices,
                                         its[k].mesh.polygons)], r[1], r[2])
        : its \in SeqsUpTo(LODItems, MaxObs), r \in {<<0, 4>>, <<0, 2>>} }

\* OverrideScenes: one object whose LOD properties and the export limits
\* overlap, miss each other or are inverted
OverrideTags == {<<3, 1>>, <<2, 2>>, <<4, NoLOD>>, <<NoLOD, 0>>, <<1, 3>>}
ExportRanges == {<<0, 4>>, <<1, 3>>, <<2, 2>>, <<3, 1>>}
OverrideScenes ==
    { Scene(<<Object(tag, Vertices(SubSeq(Points5, 1, 3), 0, 0),
                     <<Polygon(<<0, 1, 2>>, 0, "A", "s1")>>)>>, r[1], r[2])
        : tag \in OverrideTags, r \in ExportRanges }

\* TieScenes: one polygon, two of whose vertices have the same rounded
\* position, so that its cycle of canonical indices repeats an index
TieCycles == {<<1, 2, 3>>, <<2, 3, 1>>, <<3, 1, 2>>, <<3, 1, 0, 2>>, <<0, 3, 2, 1>>, <<2, 0, 3, 1>>}
TieScenes ==
    { Scene(<<Object(<<NoLOD, NoLOD>>,
                     Vertices(<<Points5[1], NearSecond, Points5[2], Points5[3]>>, 0, 0),
                     <<Polygon(c, 0, "A", n)>>)>>, 0, 0)
        : c \in TieCycles, n \in {"s1", "split"} }

\* WeightScenes: one polygon whose vertices have different weights in the
\* "transform" group
Weights == {0, 50000, 73700, 73660}
WeightScenes ==
    { Scene(<<Object(<<NoLOD, NoLOD>>, [i \in 1..3 |-> Vertex(Points5[i], w[i], 50000)],
                     <<Polygon(<<1, 2, 0>>, 0, "A", "s1")>>)>>, 0, 0)
        : w \in [1..3 -> Weights] }
    \cup
    { Scene(<<Object(<<NoLOD, NoLOD>>, [i \in 1..4 |-> Vertex(Points5[i], w[i], 0)],
                     <<Polygon(<<1, 2, 3, 0>>, 0, "A", "s1")>>)>>, 0, 0)
        : w \in [1..4 -> {50000, 73700}] }

\* FaultScenes: no object at all, and polygons whose material index has no
\* slot in obs[0].material_slots
FaultScenes ==
    { Scene(<<>>, 0, 0) }
    \cup
    { Scene(<<Object(<<NoLOD, NoLOD>>, Vertices(Points5, 0, 0),
                     [k \in DOMAIN ms |-> Polygon(CycleAt(3, k), ms[k], "A", "s1")])>>, 0, 1)
        : ms \in {m \in SeqsUpTo({0, 2, 3}, 2) : 3 \in Range(m)} }

Scenes == FieldScenes \cup NormalScenes \cup RunScenes \cup LODScenes \cup OverrideScenes
          \cup TieScenes \cup WeightScenes \cup FaultScenes

----------------------------------------------------------------------------
(* The exporter run on a scene, followed by the importer run on its file *)

Init ==
    /\ \E s \in Scenes : obs = s.obs /\ min_lod = s.min_lod /\ max_lod = s.max_lod
    /\ pc = "start"
    /\ oi = 1 /\ vi = 1
    /\ vstart = <<>> /\ vindex = 0 /\ vertex_data = <<>> /\ vertex_indices = <<>>
    /\ vtext = <<>>
    /\ transparent = FALSE /\ oindex = 0 /\ polygon_data = <<>>
    /\ pk = 1 /\ vcount = InitialVcount /\ prev_mat = InitialPrevMat
    /\ prev_normals = InitialPrevNormals
    /\ prev_tr = InitialPrevGroup /\ prev_lu = InitialPrevGroup
    /\ prevMinLOD = InitialPrevLOD /\ prevMaxLOD = InitialPrevLOD
    /\ uvs = InitialUvs /\ ttext = <<>>
    /\ opaque_triangles = <<>> /\ transparent_triangles = <<>>
    /\ lod = 0 /\ scene_objects = <<>> /\ outcome = "NONE"
    /\ imported_file = NoFile
    /\ file_state = "absent"

Next ==
    \/ Begin
    \/ AddVertex
    \/ WriteVertices
    \/ CallGetTriangles
    \/ AddPolygon
    \/ StartEmit
    \/ EmitRecord
    \/ ReturnTriangles
    \/ StartImport
    \/ ImportLOD
    \/ FinishImport
    \/ ExportImported

Spec == Init /\ [][Next]_vars

----------------------------------------------------------------------------
(* The importer run on documents that no exporter has written: triangles   *)
(* over 4 vertices whose start index and deltas may lead past the vertex   *)
(* array.                                                                  *)

MaxDocPolys == 2

DocVertices == [i \in 1..4 |-> Points5[i]]
DocRecord(it) ==
    << <<0 - 3, it.s, it.d1, it.d2, 0>>
       \o Flatten([i \in 1..3 |-> <<UvOf("A", i)[1], UvOf("A", i)[2]>>])
       \o it.lod,
       <<0, 0, UNIT>> >>
DocItems == [s : 0..2, d1 : {1, 2}, d2 : {1, 3}, lod : {<<>>, <<1, 1>>}]
Documents ==
    { [LOD |-> <<0, 1>>, vertices |-> DocVertices,
       polygons |-> [k \in DOMAIN its |-> DocRecord(its[k])]]
        : its \in SeqsUpTo(DocItems, MaxDocPolys) }

DecodeInit ==
    /\ \E d \in Documents :
          /\ min_lod = d.LOD[1] /\ max_lod = d.LOD[2]
          /\ vtext = d.vertices
          /\ opaque_triangles = d.polygons
    /\ transparent_triangles = <<>>
    /\ obs = <<>>
    /\ pc = "written"
    /\ oi = 1 /\ vi = 1
    /\ vstart = <<>> /\ vindex = 0 /\ vertex_data = <<>> /\ vertex_indices = <<>>
    /\ transparent = FALSE /\ oindex = 0 /\ polygon_data = <<>>
    /\ pk = 1 /\ vcount = InitialVcount /\ prev_mat = InitialPrevMat
    /\ prev_normals = InitialPrevNormals
    /\ prev_tr = InitialPrevGroup /\ prev_lu = InitialPrevGroup
    /\ prevMinLOD = InitialPrevLOD /\ prevMaxLOD = InitialPrevLOD
    /\ uvs = InitialUvs /\ ttext = <<>>
    /\ lod = 0 /\ scene_objects = <<>> /\ outcome = "NONE"
    /\ imported_file = NoFile
    /\ file_state = "closed"

DecodeNext ==
    \/ StartImport
    \/ ImportLOD
    \/ FinishImport

DecodeSpec == DecodeInit /\ [][DecodeNext]_vars

----------------------------------------------------------------------------
(* The source model, read directly from the scene *)

Kept(i) == ~ ObjectSkipped(obs[i])

\* Position in vertex_indices of the first vertex of object i
RECURSIVE VertexOffset(_)
VertexOffset(i) ==
    IF i = 1 THEN 0
    ELSE VertexOffset(i - 1) + (IF Kept(i - 1) THEN Len(obs[i - 1].vertices) ELSE 0)

\* The input vertices in the order in which write_egm visits them
RECURSIVE InputVertexSeq(_)
InputVertexSeq(i) ==
    IF i > Len(obs) THEN <<>>
    ELSE (IF Kept(i)
          THEN [k \in DOMAIN obs[i].vertices |->
                   [pos |-> <<round3(obs[i].vertices[k].co[1]), round3(obs[i].vertices[k].co[2]),
                              round3(obs[i].vertices[k].co[3])>>,
                    lod |-> get_lod_from_object(obs[i], min_lod, max_lod)]]
          ELSE <<>>) \o InputVertexSeq(i + 1)

ProcessedVertices == SubSeq(InputVertexSeq(1), 1, Len(vertex_indices))

SetMin(S) == CHOOSE x \in S : \A y \in S : x <= y
SetMax(S) == CHOOSE x \in S : \A y \in S : x >= y

\* Positions <<object, polygon>> of the polygons of the running stream that
\* add_polygon has been called for
ProcessedPolygons ==
    { q \in UNION {{<<i, j>> : j \in DOMAIN obs[i].polygons} : i \in DOMAIN obs} :
        /\ Kept(q[1])
        /\ (q[1] < oi \/ (q[1] = oi /\ q[2] < vi))
        /\ IsTransparent(obs[q[1]].polygons[q[2]]) = transparent }

SourceEntry(q) ==
    polygon_entry(obs[q[1]].polygons[q[2]],
                  get_lod_from_object(obs[q[1]], min_lod, max_lod)[1],
                  get_lod_from_object(obs[q[1]], min_lod, max_lod)[2],
                  obs[q[1]], VertexOffset(q[1]), vertex_indices)

\* Equal in every field other than the LOD range
SameButLOD(p1, p2) == SubSeq(p1, 1, Len(p1) - 2) = SubSeq(p2, 1, Len(p2) - 2)

----------------------------------------------------------------------------
(* C9: after any sequence of add_vertex calls, vertex_data holds exactly   *)
(* one entry per distinct rounded position of the processed input          *)
(* vertices, and the LOD range of each entry is [min of the minLODs, max   *)
(* of the maxLODs] of the input vertices with that rounded position.       *)
VertexDedup ==
    pc # "start" =>
        LET P == Range(ProcessedVertices)
            posOf(e) == <<e[1], e[2], e[3]>>
        IN  /\ \A i, j \in DOMAIN vertex_data :
                   i # j => posOf(vertex_data[i]) # posOf(vertex_data[j])
            /\ {posOf(vertex_data[i]) : i \in DOMAIN vertex_data} = {v.pos : v \in P}
            /\ \A i \in DOMAIN vertex_data :
                   LET same == {v \in P : v.pos = posOf(vertex_data[i])}
                   IN  /\ vertex_data[i][4] = SetMin({v.lod[1] : v \in same})
                       /\ vertex_data[i][5] = SetMax({v.lod[2] : v \in same})

\* Two processed input vertices of equal rounded position and different LOD
\* ranges, merged into one canonical vertex
VertexDedupWitness ==
    /\ pc = "write_vertices"
    /\ \E a, b \in DOMAIN ProcessedVertices :
         /\ ProcessedVertices[a].pos = ProcessedVertices[b].pos
         /\ ProcessedVertices[a].lod[2] < ProcessedVertices[b].lod[1]
         /\ vertex_indices[a] = vertex_indices[b]
         /\ Len(vertex_data) < Len(vertex_indices)

(* C10: after any sequence of add_polygon calls of one stream, no two      *)
(* entries of polygon_data agree in every field other than the LOD range,  *)
(* every processed polygon is represented by an entry, and the range of    *)
(* each entry is [min of mins, max of maxes] over the polygons it stands   *)
(* for.                                                                    *)
PolygonDedup ==
    pc \in {"collect", "emit"} =>
        LET E == {SourceEntry(q) : q \in ProcessedPolygons}
        IN  /\ \A a, b \in DOMAIN polygon_data :
                   a # b => ~ SameButLOD(polygon_data[a], polygon_data[b])
            /\ \A e \in E : \E a \in DOMAIN polygon_data : SameButLOD(polygon_data[a], e)
            /\ \A a \in DOMAIN polygon_data :
                   LET same == {e \in E : SameButLOD(polygon_data[a], e)}
                       m == Len(polygon_data[a])
                   IN  /\ same # {}
                       /\ polygon_data[a][m - 1] = SetMin({e[Len(e) - 1] : e \in same})
                       /\ polygon_data[a][m] = SetMax({e[Len(e)] : e \in same})

\* A polygon of a later object merged into an entry that is not the last one
PolygonDedupWitness ==
    /\ pc = "emit"
    /\ Len(polygon_data) >= 2
    /\ \E q1, q2 \in ProcessedPolygons :
         /\ q1[1] < q2[1]
         /\ SameButLOD(SourceEntry(q1), SourceEntry(q2))
         /\ SameButLOD(SourceEntry(q1), polygon_data[1])
         /\ SourceEntry(q1)[Len(SourceEntry(q1))] < SourceEntry(q2)[Len(SourceEntry(q2)) - 1]

----------------------------------------------------------------------------
(* The records of the running stream against the entries they come from *)

\* Field f of entry k differs from that field of the entry before it; the
\* first entry of a stream has no entry before it
Differs(F(_), k) == k = 1 \/ F(polygon_data[k]) # F(polygon_data[k - 1])
EntryCount(polygon) == polygon[1]

HasSentinel(t0) == t0[1] < 0
StripSentinel(t0) == IF HasSentinel(t0) THEN Tail(t0) ELSE t0

(* C3: in the emission loop each of material, UV block, LOD pair, normals  *)
(* and group pair is left out of a record iff its value equals the value   *)
(* of the polygon before it in the stream, is written otherwise, and the   *)
(* carried state then holds the values of the polygon just written.        *)
RunLengthRule ==
    pc = "emit" =>
        /\ \A k \in DOMAIN ttext :
              LET p == polygon_data[k]
              IN  /\ StripSentinel(ttext[k][1]) =
                        EntryIndices(p)
                        \o (IF Differs(EntryMat, k) THEN <<EntryMat(p)>> ELSE <<>>)
                        \o (IF Differs(EntryUvs, k) THEN MapSeq(f2s3, EntryUvs(p)) ELSE <<>>)
                        \o (IF Differs(EntryLOD, k) THEN EntryLOD(p) ELSE <<>>)
                  /\ Flatten(Tail(ttext[k])) =
                        (IF Differs(EntryNormals, k) THEN MapSeq(f2s4, EntryNormals(p)) ELSE <<>>)
                        \o (IF Differs(EntryGroups, k) THEN EntryGroups(p) ELSE <<>>)
        /\ ttext # <<>> =>
              LET p == polygon_data[Len(ttext)]
              IN  /\ prev_mat = EntryMat(p)
                  /\ uvs = EntryUvs(p)
                  /\ <<prevMinLOD, prevMaxLOD>> = EntryLOD(p)
                  /\ prev_normals = EntryNormals(p)
                  /\ <<prev_tr, prev_lu>> = EntryGroups(p)

\* Five consecutive polygons that share material, UV block, normals and group
\* pair: the four that follow the first are written as their indices alone
RunLengthWitness ==
    /\ pc = "emit"
    /\ Len(ttext) >= 5
    /\ \E k \in 1..(Len(ttext) - 4) :
          /\ \A j \in (k + 1)..(k + 4) :
                /\ EntryMat(polygon_data[j]) = EntryMat(polygon_data[k])
                /\ EntryUvs(polygon_data[j]) = EntryUvs(polygon_data[k])
                /\ EntryNormals(polygon_data[j]) = EntryNormals(polygon_data[k])
                /\ EntryGroups(polygon_data[j]) = EntryGroups(polygon_data[k])
                /\ ttext[j] = <<EntryIndices(polygon_data[j])>>
          /\ Len(ttext[k]) = 2

(* C5: for every record the exporter writes, the importer's has_mat,       *)
(* has_uv and has_lod, computed from the length of the first sub-array,    *)
(* tell exactly which of material, UV block and LOD pair were written, and *)
(* the importer's read positions hold the written values.                  *)
DisambiguationExact ==
    [][ (pc = "emit" /\ pk <= Len(polygon_data)) =>
          LET polygon == polygon_data[pk]
              n == polygon[1]
              t0 == ttext'[pk][1]
              offs == Offs(t0)
              start == offs + n + has_mat(t0, n)
          IN  /\ offs = (IF CountChanged(polygon, vcount) THEN 1 ELSE 0)
              /\ has_mat(t0, n) = (IF MaterialChanged(polygon, prev_mat) THEN 1 ELSE 0)
              /\ has_uv(t0, n) = (IF UvChanged(polygon, uvs) THEN 2 * n ELSE 0)
              /\ has_lod(t0, n) = (IF LODChanged(polygon, prevMinLOD, prevMaxLOD) THEN 2 ELSE 0)
              /\ MaterialChanged(polygon, prev_mat) => t0[offs + n + 1] = EntryMat(polygon)
              /\ UvChanged(polygon, uvs) =>
                    \A ix \in 1..(2 * n) : t0[start + ix] = f2s3(EntryUvs(polygon)[ix])
              /\ LODChanged(polygon, prevMinLOD, prevMaxLOD) =>
                    <<t0[Len(t0) - 1], t0[Len(t0)]>> = EntryLOD(polygon)
    ]_vars

\* A quad record without sentinel that carries the LOD pair alone, after a
\* record that carries the sentinel and all three fields
DisambiguationWitness ==
    /\ pc = "emit"
    /\ Len(ttext) = 2
    /\ polygon_data[2][1] = 4
    /\ Len(ttext[1][1]) = 1 + 4 + 1 + 8 + 2
    /\ ~ HasSentinel(ttext[2][1])
    /\ Len(ttext[2][1]) = 4 + 2
    /\ has_lod(ttext[2][1], 4) = 2
    /\ has_uv(ttext[2][1], 4) = 0
    /\ EntryLOD(polygon_data[2]) # EntryLOD(polygon_data[1])

(* C6 as the format describes it: a record has 1 to 3 sub-arrays, the      *)
(* normals sub-array has length 3 or 3n, and a changed group pair is a     *)
(* sub-array [transformIndex, luminosityIndex] of its own after it.        *)
RecordShapeThreeSubArrays ==
    pc = "emit" =>
        \A k \in DOMAIN ttext :
            LET rec == ttext[k]
                n == polygon_data[k][1]
                nw == Differs(EntryNormals, k)
                gw == Differs(EntryGroups, k)
            IN  /\ Len(rec) \in 1..3
                /\ nw => Len(rec) >= 2 /\ Len(rec[2]) \in {3, 3 * n}
                /\ gw => /\ Len(rec) = (IF nw THEN 3 ELSE 2)
                         /\ rec[Len(rec)] = EntryGroups(polygon_data[k])

(* C6 as the exporter writes it: a record has 1 or 2 sub-arrays; the       *)
(* second one is present iff the normals or the group pair changed and     *)
(* holds the normals (3 or 3n values) if they changed, followed by the     *)
(* group pair if it changed.                                               *)
RecordShape ==
    pc = "emit" =>
        \A k \in DOMAIN ttext :
            LET rec == ttext[k]
                p == polygon_data[k]
                n == p[1]
                nw == Differs(EntryNormals, k)
                gw == Differs(EntryGroups, k)
            IN  /\ Len(rec) = (IF nw \/ gw THEN 2 ELSE 1)
                /\ Len(EntryNormals(p)) \in {3, 3 * n}
                /\ (nw \/ gw) =>
                      /\ rec[2] = (IF nw THEN MapSeq(f2s4, EntryNormals(p)) ELSE <<>>)
                                  \o (IF gw THEN EntryGroups(p) ELSE <<>>)
                      /\ Len(rec[2]) \in {2, 3, 5, 3 * n, 3 * n + 2}

\* A record after the first whose normals and group pair both changed: one
\* second sub-array of 5 values
RecordShapeWitness ==
    /\ pc = "emit"
    /\ \E k \in DOMAIN ttext :
          /\ k > 1
          /\ Differs(EntryNormals, k)
          /\ Differs(EntryGroups, k)
          /\ Len(ttext[k]) = 2
          /\ Len(ttext[k][2]) = 5
          /\ SubSeq(ttext[k][2], 4, 5) = EntryGroups(polygon_data[k])

\* The vertex counts that the importer assigns to the records ts, starting
\* from the carried count prevPoints
RECURSIVE DecodedPoints(_, _)
DecodedPoints(ts, prevPoints) ==
    IF ts = <<>> THEN <<>>
    ELSE <<Points(Head(ts)[1], prevPoints)>>
         \o DecodedPoints(Tail(ts), Points(Head(ts)[1], prevPoints))

(* C7: within a stream a record after the first carries the sentinel iff   *)
(* its polygon's vertex count differs from that of the polygon before it,  *)
(* the sentinel is minus the vertex count, and the importer assigns every  *)
(* record the vertex count of its polygon.                                 *)
SentinelTransitions ==
    pc = "emit" =>
        /\ \A k \in DOMAIN ttext :
              /\ k > 1 => (HasSentinel(ttext[k][1]) <=> Differs(EntryCount, k))
              /\ HasSentinel(ttext[k][1]) => ttext[k][1][1] = 0 - polygon_data[k][1]
        /\ \A prevPoints \in {3, 4} :
              DecodedPoints(ttext, prevPoints) = [k \in DOMAIN ttext |-> polygon_data[k][1]]

\* Triangle, triangle, quad, quad, triangle: sentinels -3, none, -4, none, -3
SentinelWitness ==
    /\ pc = "emit"
    /\ Len(ttext) = 5
    /\ [k \in 1..5 |-> polygon_data[k][1]] = <<3, 3, 4, 4, 3>>
    /\ [k \in 1..5 |-> HasSentinel(ttext[k][1])] = <<TRUE, FALSE, TRUE, FALSE, TRUE>>
    /\ ttext[3][1][1] = 0 - 4
    /\ ttext[5][1][1] = 0 - 3

(* C8 as stated: the carried vertex count starts at 3, so a stream whose   *)
(* first polygon is a triangle writes no sentinel in its first record.     *)
FirstTriangleWithoutSentinel ==
    (pc = "emit" /\ ttext # <<>> /\ polygon_data[1][1] = 3) => ~ HasSentinel(ttext[1][1])

(* C8 as the exporter behaves: the carried vertex count starts at 0, which *)
(* no polygon has, so the first record of every stream carries the         *)
(* sentinel (-3 for a triangle); a later record carries it only if its     *)
(* vertex count differs from the carried one.                              *)
FirstRecordSentinel ==
    pc = "emit" =>
        /\ ttext = <<>> => vcount = 0
        /\ ttext # <<>> => vcount = polygon_data[Len(ttext)][1]
        /\ \A k \in DOMAIN ttext :
              /\ k = 1 => ttext[k][1][1] = 0 - polygon_data[k][1]
              /\ (k > 1 /\ HasSentinel(ttext[k][1])) => Differs(EntryCount, k)

\* A stream whose first polygon is a triangle, its first record written
FirstRecordSentinelWitness ==
    /\ pc = "emit"
    /\ Len(ttext) = 1
    /\ polygon_data[1][1] = 3
    /\ ttext[1][1][1] = 0 - 3

----------------------------------------------------------------------------
(* The imported meshes against the source model *)

SourcePolygons ==
    { q \in UNION {{<<i, j>> : j \in DOMAIN obs[i].polygons} : i \in DOMAIN obs} : Kept(q[1]) }

ValidAt(q, l) ==
    /\ get_lod_from_object(obs[q[1]], min_lod, max_lod)[1] <= l
    /\ l <= get_lod_from_object(obs[q[1]], min_lod, max_lod)[2]

\* s rotated to start at its 0-based position r
Rotate(s, r) == [i \in DOMAIN s |-> s[((i - 1 + r) % Len(s)) + 1]]

\* Source polygon q as a mesh of its LOD presents it: the cycle of canonical
\* vertex indices rotated to its minimum, and per corner of that cycle the UV
\* pair and the normal at the precision of the file
ExpectedFace(q) ==
    LET ob == obs[q[1]]
        p == ob.polygons[q[2]]
        cyc == [i \in DOMAIN p.vertices |-> vertex_indices[VertexOffset(q[1]) + p.vertices[i] + 1]]
        r == IndexOf(cyc, SeqMin(cyc))
    IN  [vertices       |-> Rotate(cyc, r),
         material_index |-> p.material_index,
         uv             |-> Rotate([i \in DOMAIN cyc |->
                                       <<f2s3(p.uv[i][1]), UNIT - f2s3(UNIT - p.uv[i][2])>>], r),
         corner_normals |-> Rotate([i \in DOMAIN cyc |->
                                       <<f2s4(p.corner_normals[i][1]),
                                         f2s4(p.corner_normals[i][2]),
                                         f2s4(p.corner_normals[i][3])>>], r),
         groups         |-> <<get_group_index(ob, p, "transform"),
                              get_group_index(ob, p, "luminosity")>>]

(* C1: the importer's mesh of every LOD L of the exported range holds      *)
(* exactly the source polygons valid at L, with their rotated cycle,       *)
(* material, UV pairs, normals and group pair, and the rounded position of *)
(* every source vertex valid at L.                                         *)
RoundTrip ==
    (pc = "done" /\ imported_file = NoFile) =>
        /\ outcome = "FINISHED"
        /\ \A l \in min_lod..max_lod :
              LET ob == scene_objects[l - min_lod + 1]
              IN  /\ Range(ob.polygons) = {ExpectedFace(q) : q \in {x \in SourcePolygons : ValidAt(x, l)}}
                  /\ \A i \in DOMAIN obs :
                        (Kept(i) /\ ValidAt(<<i, 1>>, l)) =>
                            \A k \in DOMAIN obs[i].vertices :
                                ob.vertices[vertex_indices[VertexOffset(i) + k] + 1].co
                                    = <<round3(obs[i].vertices[k].co[1]),
                                        round3(obs[i].vertices[k].co[2]),
                                        round3(obs[i].vertices[k].co[3])>>

(* C2: exporting the objects of a finished import again writes the vertex  *)
(* and polygon arrays of the imported file.                                *)
ReencodeIdentity ==
    (pc = "written" /\ imported_file # NoFile) =>
        /\ FileVertices = imported_file.vertices
        /\ FilePolygons = imported_file.polygons

(* C4: the import of an exported file never fails on the carried normals,  *)
(* and every polygon of every mesh has one normal per corner, equal to     *)
(* the normals of a source polygon with that vertex cycle.                 *)
NormalsReconstructed ==
    (pc = "done" /\ imported_file = NoFile) =>
        /\ outcome = "FINISHED"
        /\ \A k \in DOMAIN scene_objects :
              \A f \in DOMAIN scene_objects[k].polygons :
                  LET face == scene_objects[k].polygons[f]
                  IN  /\ Len(face.corner_normals) = Len(face.vertices)
                      /\ \E q \in SourcePolygons :
                            /\ ExpectedFace(q).vertices = face.vertices
                            /\ ExpectedFace(q).corner_normals = face.corner_normals

----------------------------------------------------------------------------
(* Validity ranges as the importer decodes them *)

\* The range in force at vertex record k of vs: the pair of the last record up
\* to k that has one, the file's LOD range otherwise
RECURSIVE CarriedRange(_, _, _)
CarriedRange(vs, k, global) ==
    IF k = 0 THEN global
    ELSE IF Len(vs[k]) >= 5 THEN <<vs[k][4], vs[k][5]>>
    ELSE CarriedRange(vs, k - 1, global)

\* The LODs at which some processed input vertex with canonical index c is valid
SourceVertexLODs(c) ==
    UNION { ProcessedVertices[a].lod[1]..ProcessedVertices[a].lod[2]
              : a \in {b \in DOMAIN ProcessedVertices : vertex_indices[b] = c} }

(* C11: after decoding, a merged polygon is part of the mesh of LOD L iff  *)
(* one of the source polygons merged into it is valid at L, and a merged   *)
(* canonical vertex is valid at L iff one of the source vertices merged    *)
(* into it is valid at L, also when the merged ranges are not contiguous.  *)
MergedValidityIsUnion ==
    (pc = "done" /\ imported_file = NoFile /\ outcome = "FINISHED") =>
        \A l \in min_lod..max_lod :
            LET ob == scene_objects[l - min_lod + 1]
            IN  /\ Range(ob.polygons)
                      = {ExpectedFace(q) : q \in {x \in SourcePolygons : ValidAt(x, l)}}
                /\ \A k \in DOMAIN vtext :
                      (l \in CarriedRange(vtext, k, <<min_lod, max_lod>>)[1]
                                ..CarriedRange(vtext, k, <<min_lod, max_lod>>)[2])
                          <=> l \in SourceVertexLODs(k - 1)

----------------------------------------------------------------------------
(* The entries of polygon_data against the polygons they are compiled from *)

\* The cycle of canonical vertex indices of source polygon q
CanonicalCycle(q) ==
    [i \in DOMAIN obs[q[1]].polygons[q[2]].vertices |->
        vertex_indices[VertexOffset(q[1]) + obs[q[1]].polygons[q[2]].vertices[i] + 1]]

\* The 0-based positions r of the cycle cyc that hold its minimum and are not
\* preceded by it
FirstMinimum(cyc) ==
    {r \in 0..(Len(cyc) - 1) :
        /\ \A j \in DOMAIN cyc : cyc[r + 1] <= cyc[j]
        /\ \A j \in 1..r : cyc[j] # cyc[r + 1]}

(* C12: for every polygon passed to add_polygon, polygon_data has an entry *)
(* whose start index is the minimum of the polygon's cycle of canonical    *)
(* indices, whose deltas are all >= 0, and whose indices start, start +    *)
(* delta_i are the cycle rotated to the first occurrence of its minimum;   *)
(* the entry's UV pairs and per-corner normals are the polygon's, rotated  *)
(* by the same amount.                                                     *)
Canonicalized ==
    pc \in {"collect", "emit"} =>
        \A q \in ProcessedPolygons :
            LET p == obs[q[1]].polygons[q[2]]
                n == Len(p.vertices)
                cyc == CanonicalCycle(q)
            IN  \E a \in DOMAIN polygon_data :
                    LET e == polygon_data[a]
                        out == [i \in 1..n |-> IF i = 1 THEN e[2] ELSE e[2] + e[i + 1]]
                    IN  /\ e[1] = n
                        /\ \A j \in DOMAIN cyc : e[2] <= cyc[j]
                        /\ \A i \in 2..n : e[i + 1] >= 0
                        /\ \E r \in FirstMinimum(cyc) :
                              /\ out = Rotate(cyc, r)
                              /\ EntryUvs(e)
                                   = Flatten(Rotate([i \in 1..n |->
                                         <<round3(p.uv[i][1]), round3(UNIT - p.uv[i][2])>>], r))
                              /\ e[SplitPos(e) + 1] = 1 =>
                                   EntryNormals(e)
                                     = Flatten(Rotate([i \in 1..n |->
                                           <<round4(p.corner_normals[i][1]),
                                             round4(p.corner_normals[i][2]),
                                             round4(p.corner_normals[i][3])>>], r))

\* A polygon with split normals whose cycle holds its minimum twice, the
\* first time not at its first corner
CanonicalizedWitness ==
    /\ pc = "emit"
    /\ \E q \in ProcessedPolygons :
          /\ 0 \notin FirstMinimum(CanonicalCycle(q))
          /\ \E i, j \in DOMAIN CanonicalCycle(q) :
                /\ i < j
                /\ CanonicalCycle(q)[i] = CanonicalCycle(q)[j]
                /\ (i - 1) \in FirstMinimum(CanonicalCycle(q))
          /\ obs[q[1]].polygons[q[2]].corner_normals[1] # obs[q[1]].polygons[q[2]].normal
          /\ polygon_data # <<>>

----------------------------------------------------------------------------
(* Group indices *)

\* The derived indices round(weight * 1000) of the vertices of polygon p of
\* object ob in the group
DerivedIndices(ob, p, group) ==
    {RoundHalfEven(ob.vertices[p.vertices[i] + 1][group], 100) : i \in DOMAIN p.vertices}

(* C13: for every polygon passed to add_polygon and each of the two         *)
(* groups, the group index of its entry is g when all of its vertices have  *)
(* the derived index g, and 0 when two of them differ; the legacy           *)
(* get_group_index gives the same value for every triangle.                 *)
GroupIndexCollapse ==
    pc \in {"collect", "emit"} =>
        \A q \in ProcessedPolygons :
            LET ob == obs[q[1]]
                p == ob.polygons[q[2]]
                e == SourceEntry(q)
            IN  /\ \E a \in DOMAIN polygon_data :
                      EntryGroups(polygon_data[a]) = EntryGroups(e)
                /\ \A g \in {1, 2} :
                      LET group == IF g = 1 THEN "transform" ELSE "luminosity"
                          D == DerivedIndices(ob, p, group)
                      IN  /\ Cardinality(D) = 1 => D = {EntryGroups(e)[g]}
                          /\ Cardinality(D) > 1 => EntryGroups(e)[g] = 0
                          /\ Len(p.vertices) = 3 =>
                                legacy_get_group_index(ob, p, group) = EntryGroups(e)[g]

\* A triangle with the weights 0.737, 0.5, 0.737 in "transform" and 0.5 at
\* every vertex in "luminosity": its entry has the group pair 0, 500
GroupIndexCollapseWitness ==
    /\ pc = "emit"
    /\ polygon_data # <<>>
    /\ EntryGroups(polygon_data[1]) = <<0, 500>>
    /\ \E q \in ProcessedPolygons :
          [i \in DOMAIN obs[q[1]].polygons[q[2]].vertices |->
              obs[q[1]].vertices[obs[q[1]].polygons[q[2]].vertices[i] + 1].transform]
            = <<73700, 50000, 73700>>

----------------------------------------------------------------------------
(* The meshes of the importer against the file they are read from *)

(* C14: the vertex list of the mesh of every LOD L is as long as the       *)
(* file's vertex array; its position k holds the position of the file's    *)
(* vertex k if the range in force at that record contains L and (0,0,0)    *)
(* otherwise; every vertex index of every face of the mesh is an index of  *)
(* that list.                                                              *)
IndexPreservingFilter ==
    (pc \in {"import", "done"} /\ imported_file = NoFile) =>
        \A k \in DOMAIN scene_objects :
            LET ob == scene_objects[k]
                l == ob.minLOD
            IN  /\ l = min_lod + k - 1
                /\ Len(ob.vertices) = Len(FileVertices)
                /\ \A v \in DOMAIN FileVertices :
                      LET rg == CarriedRange(FileVertices, v, <<min_lod, max_lod>>)
                      IN  ob.vertices[v].co
                            = IF rg[1] <= l /\ l <= rg[2]
                              THEN <<FileVertices[v][1], FileVertices[v][2], FileVertices[v][3]>>
                              ELSE <<0, 0, 0>>
                /\ \A f \in DOMAIN ob.polygons : \A i \in DOMAIN ob.polygons[f].vertices :
                      ob.polygons[f].vertices[i] \in 0..(Len(ob.vertices) - 1)

\* A mesh with a placeholder before a vertex that it shows, the placeholder
\* standing for a vertex that is not at the origin, and with a face
IndexPreservingFilterWitness ==
    /\ pc = "done"
    /\ imported_file = NoFile
    /\ \E k \in DOMAIN scene_objects : \E v, w \in DOMAIN FileVertices :
          /\ v < w
          /\ scene_objects[k].vertices[v].co = <<0, 0, 0>>
          /\ <<FileVertices[v][1], FileVertices[v][2], FileVertices[v][3]>> # <<0, 0, 0>>
          /\ scene_objects[k].vertices[w].co # <<0, 0, 0>>
          /\ scene_objects[k].polygons # <<>>

(* C15: the importer adds one object per LOD of the file's range, in       *)
(* ascending order of LOD; when execute has returned there is exactly one  *)
(* object for every LOD of the range, and an object is hidden iff its LOD  *)
(* is below maxLOD.                                                        *)
PerLODObjects ==
    /\ pc \in {"import", "done"} =>
          /\ \A k \in DOMAIN scene_objects :
                /\ scene_objects[k].minLOD = min_lod + k - 1
                /\ scene_objects[k].maxLOD = min_lod + k - 1
          /\ pc = "import" => Len(scene_objects) = lod - min_lod
    /\ outcome = "FINISHED" =>
          /\ Len(scene_objects) = (IF max_lod >= min_lod THEN max_lod - min_lod + 1 ELSE 0)
          /\ \A k \in DOMAIN scene_objects :
                scene_objects[k].hidden <=> (min_lod + k - 1 < max_lod)

\* A finished import of a file with 5 LODs, its last object visible
PerLODObjectsWitness ==
    /\ pc = "done"
    /\ outcome = "FINISHED"
    /\ Len(scene_objects) = 5
    /\ ~ scene_objects[5].hidden
    /\ scene_objects[4].hidden

----------------------------------------------------------------------------
(* The written records against the written vertex array *)

\* The vertex indices that the first sub-array t0 of a record of n corners
\* denotes: its start index and start + delta
RecordIndices(t0, n) ==
    [i \in 1..n |-> IF i = 1 THEN StripSentinel(t0)[1]
                    ELSE StripSentinel(t0)[1] + StripSentinel(t0)[i]]

(* C16: the start index and every start + delta of every polygon record    *)
(* that the exporter writes is the index of a written vertex record, for   *)
(* the records of the running stream and for those of the finished file.   *)
VertexRefsInRange ==
    /\ pc = "emit" =>
          \A k \in DOMAIN ttext :
              \A x \in Range(RecordIndices(ttext[k][1], polygon_data[k][1])) :
                  x \in 0..(Len(vtext) - 1)
    /\ pc = "written" =>
          \A k \in DOMAIN FilePolygons :
              \A x \in Range(RecordIndices(FilePolygons[k][1],
                                            DecodedPoints(FilePolygons, 3)[k])) :
                  x \in 0..(Len(FileVertices) - 1)

\* A written file of a scene whose first object is skipped and whose kept
\* object has two vertices of one rounded position, its last vertex record
\* being referred to
VertexRefsInRangeWitness ==
    /\ pc = "written"
    /\ Len(obs) = 2
    /\ ObjectSkipped(obs[1])
    /\ Len(FileVertices) < Len(vertex_indices)
    /\ \E k \in DOMAIN FilePolygons :
          Len(FileVertices) - 1
              \in Range(RecordIndices(FilePolygons[k][1], DecodedPoints(FilePolygons, 3)[k]))

(* C17: every entry of vertex_data and of polygon_data, and so every       *)
(* written record, has a range [lo, hi] with lo <= hi that lies inside the *)
(* range min_lod..max_lod written to info.LOD.                             *)
ValidityRangesWellFormed ==
    /\ pc # "start" =>
          \A k \in DOMAIN vertex_data :
              /\ vertex_data[k][4] <= vertex_data[k][5]
              /\ min_lod <= vertex_data[k][4]
              /\ vertex_data[k][5] <= max_lod
    /\ pc \in {"collect", "emit"} =>
          \A a \in DOMAIN polygon_data :
              /\ EntryLOD(polygon_data[a])[1] <= EntryLOD(polygon_data[a])[2]
              /\ min_lod <= EntryLOD(polygon_data[a])[1]
              /\ EntryLOD(polygon_data[a])[2] <= max_lod

----------------------------------------------------------------------------
(* Decoding documents that refer to vertices they do not have *)

\* Some record of the file refers to a vertex index that is not an index of
\* the file's vertex array
RefersPastVertices ==
    \E k \in DOMAIN FilePolygons :
        \E x \in Range(RecordIndices(FilePolygons[k][1], DecodedPoints(FilePolygons, 3)[k])) :
            x >= Len(FileVertices)

(* C18: the import of a document with a polygon record whose start index   *)
(* or start + delta is >= the length of the vertex array ends with an      *)
(* error raised by execute, and no mesh object is created.                 *)
OutOfRangeRejected ==
    (pc = "done" /\ RefersPastVertices) => (outcome = "ERROR" /\ scene_objects = <<>>)

----------------------------------------------------------------------------
(* Failing calls *)

(* C19: when write_egm fails, no file has been created or overwritten at   *)
(* its path, and when execute of the importer fails, no object of any LOD  *)
(* has been added to the scene.                                            *)
FailureLeavesNothing ==
    /\ pc = "export_failed" => file_state = "absent"
    /\ (pc = "done" /\ outcome # "FINISHED") => scene_objects = <<>>

----------------------------------------------------------------------------
(* One stream on its own *)

\* polygon_data of a call of get_triangles that is handed only the polygons
\* of its own stream: the polygons of the other stream are left out before
\* they are looked at
RECURSIVE StreamEntries(_, _, _, _)
StreamEntries(i, j, tr, pd) ==
    IF i > Len(obs) THEN pd
    ELSE IF ~ Kept(i) \/ j > Len(obs[i].polygons) THEN StreamEntries(i + 1, 1, tr, pd)
    ELSE IF IsTransparent(obs[i].polygons[j]) # tr THEN StreamEntries(i, j + 1, tr, pd)
    ELSE StreamEntries(i, j + 1, tr, add_polygon(pd, SourceEntry(<<i, j>>)))

\* The records of the entries es, written from the carried state st
RECURSIVE EncodeStream(_, _)
EncodeStream(es, st) ==
    IF es = <<>> THEN <<>>
    ELSE LET polygon == Head(es)
         IN  << <<FirstSubArray(polygon, st.vcount, st.prev_mat, st.uvs,
                                st.prevMinLOD, st.prevMaxLOD)>>
                \o RestSubArrays(polygon, st.prev_normals, st.prev_tr, st.prev_lu) >>
             \o EncodeStream(Tail(es),
                    [vcount |-> polygon[1], prev_mat |-> EntryMat(polygon),
                     uvs |-> EntryUvs(polygon), prevMinLOD |-> EntryLOD(polygon)[1],
                     prevMaxLOD |-> EntryLOD(polygon)[2],
                     prev_normals |-> EntryNormals(polygon),
                     prev_tr |-> EntryGroups(polygon)[1], prev_lu |-> EntryGroups(polygon)[2]])

\* The text of stream tr of an export that has no polygon of the other stream
StreamAlone(tr) ==
    EncodeStream(StreamEntries(1, 1, tr, <<>>),
                 [vcount |-> InitialVcount, prev_mat |-> InitialPrevMat, uvs |-> InitialUvs,
                  prevMinLOD |-> InitialPrevLOD, prevMaxLOD |-> InitialPrevLOD,
                  prev_normals |-> InitialPrevNormals,
                  prev_tr |-> InitialPrevGroup, prev_lu |-> InitialPrevGroup])

(* C20: the text of each polygon stream of a written file is the text that *)
(* the export writes for that stream when the other stream has no polygon, *)
(* the vertex map and the LOD range being the same; and the first record   *)
(* of each stream carries its LOD pair whatever range the vertex records   *)
(* have left in force.                                                     *)
StreamIndependence ==
    pc = "written" =>
        /\ opaque_triangles = StreamAlone(FALSE)
        /\ transparent_triangles = StreamAlone(TRUE)
        /\ \A str \in {opaque_triangles, transparent_triangles} :
              str # <<>> =>
                  /\ has_lod(str[1][1], DecodedPoints(str, 3)[1]) = 2
                  /\ HasSentinel(str[1][1])

\* A file with both streams, the last opaque and the first transparent
\* polygon having the same vertex count and LOD range
StreamIndependenceWitness ==
    /\ pc = "written"
    /\ opaque_triangles # <<>>
    /\ transparent_triangles # <<>>
    /\ LET a == StreamEntries(1, 1, FALSE, <<>>)
           b == StreamEntries(1, 1, TRUE, <<>>)
       IN  /\ a[Len(a)][1] = b[1][1]
           /\ EntryLOD(a[Len(a)]) = EntryLOD(b[1])
           /\ EntryGroups(a[Len(a)]) = EntryGroups(b[1])

----------------------------------------------------------------------------
(* The polygons array as the importer reads it: one carried state over the *)
(* records of both streams                                                 *)

\* The carried values with which execute starts each of its passes
ImporterStart(global) ==
    [prevPoints |-> 3, prevMinLOD |-> global[1], prevMaxLOD |-> global[2],
     prevNormals |-> <<>>, prevmat |-> 0, prevUv |-> <<>>, prev_tra |-> 0, prev_lum |-> 0]

\* The carried values after record t was read with the carried values st: what
\* the two passes assign before they test the LOD
CarriedState(t, st) ==
    LET t0 == t[1]
        offs == Offs(t0)
        points == Points(t0, st.prevPoints)
        hm == has_mat(t0, points)
        hu == has_uv(t0, points)
        hl == has_lod(t0, points)
        start == offs + points + hm
        hg == Len(t) > 1 /\ Len(t[2]) % 3 = 2
    IN  [prevPoints  |-> points,
         prevMinLOD  |-> IF hl # 0 THEN t0[Len(t0) - 1] ELSE st.prevMinLOD,
         prevMaxLOD  |-> IF hl # 0 THEN t0[Len(t0)] ELSE st.prevMaxLOD,
         prevNormals |-> IF Len(t) > 1 /\ Len(t[2]) > 2
                         THEN ReadNormals(t[2], points) ELSE st.prevNormals,
         prevmat     |-> IF hm # 0 THEN t0[offs + points + 1] ELSE st.prevmat,
         prevUv      |-> IF hu # 0
                         THEN [ix \in 1..points |->
                                  <<t0[start + 2 * ix - 1], UNIT - t0[start + 2 * ix]>>]
                         ELSE st.prevUv,
         prev_tra    |-> IF hg THEN t[2][Len(t[2]) - 1] ELSE st.prev_tra,
         prev_lum    |-> IF hg THEN t[2][Len(t[2])] ELSE st.prev_lum]

\* The carried values after each of the records ts
RECURSIVE CarriedStates(_, _)
CarriedStates(ts, st) ==
    IF ts = <<>> THEN <<>>
    ELSE <<CarriedState(Head(ts), st)>> \o CarriedStates(Tail(ts), CarriedState(Head(ts), st))

\* The values that the importer has for every record of the written file
DecodedFile == CarriedStates(FilePolygons, ImporterStart(<<min_lod, max_lod>>))

\* Record k of the file stands for source polygon q: it has the polygon's
\* rotated cycle, material, UV pairs, group pair and normals (a carried shared
\* normal is held once per corner of the record that wrote it)
Represents(k, q) ==
    LET e == ExpectedFace(q)
        d == DecodedFile[k]
    IN  /\ d.prevPoints = Len(e.vertices)
        /\ RecordIndices(FilePolygons[k][1], d.prevPoints) = e.vertices
        /\ d.prevmat = e.material_index
        /\ d.prevUv = e.uv
        /\ <<d.prev_tra, d.prev_lum>> = e.groups
        /\ Range(d.prevNormals) = Range(e.corner_normals)

\* ','.join(ttext): the records with a separator between neighbours
Comma == [kind |-> "comma"]
RecordToken(t) == [kind |-> "record", value |-> t]
RECURSIVE Join(_)
Join(ts) ==
    IF ts = <<>> THEN <<>>
    ELSE IF Len(ts) = 1 THEN <<RecordToken(ts[1])>>
    ELSE <<RecordToken(Head(ts)), Comma>> \o Join(Tail(ts))

\* What write_egm writes between '"polygons":[' and ']}'
PolygonsText ==
    Join(opaque_triangles)
    \o (IF opaque_triangles # <<>> /\ transparent_triangles # <<>> THEN <<Comma>> ELSE <<>>)
    \o Join(transparent_triangles)

(* C21: in a written file every source polygon of every object that is not *)
(* skipped is represented by exactly one record of the polygons array,     *)
(* which lies in the transparent stream iff the alpha of the polygon's     *)
(* material is < 1; the opaque records precede the transparent ones; and   *)
(* the text of the array has one separator between neighbouring records    *)
(* and none elsewhere, so one between the streams iff both have records.   *)
PartitionAndOrder ==
    pc = "written" =>
        /\ \A q \in SourcePolygons :
              LET R == {k \in DOMAIN FilePolygons : Represents(k, q)}
                  alpha == material_alpha[obs[q[1]].polygons[q[2]].material_index + 1]
              IN  /\ Cardinality(R) = 1
                  /\ \A k \in R : (k > Len(opaque_triangles)) <=> (alpha < UNIT)
        /\ \A j, k \in DOMAIN FilePolygons :
              (material_alpha[DecodedFile[j].prevmat + 1] < UNIT
                 /\ ~ (material_alpha[DecodedFile[k].prevmat + 1] < UNIT)) => k < j
        /\ Len(PolygonsText) = (IF FilePolygons = <<>> THEN 0 ELSE 2 * Len(FilePolygons) - 1)
        /\ \A i \in DOMAIN PolygonsText :
              IF i % 2 = 1
              THEN PolygonsText[i] = RecordToken(FilePolygons[(i + 1) \div 2])
              ELSE PolygonsText[i] = Comma

\* A written file with two opaque records followed by a transparent one
PartitionAndOrderWitness ==
    /\ pc = "written"
    /\ Len(opaque_triangles) = 2
    /\ Len(transparent_triangles) = 1
    /\ PolygonsText[4] = Comma
    /\ material_alpha[DecodedFile[3].prevmat + 1] < UNIT
    /\ material_alpha[DecodedFile[2].prevmat + 1] = UNIT

----------------------------------------------------------------------------
(* The vertex records against vertex_data *)

\* The range of canonical vertex k and the range carried to its record: that
\* of the vertex before it, the global range for the first one
VertexRange(k) == <<vertex_data[k][4], vertex_data[k][5]>>
CarriedToVertex(k) == IF k = 1 THEN <<min_lod, max_lod>> ELSE VertexRange(k - 1)

(* C22: a vertex record of the written array has a LOD pair iff the range  *)
(* of its canonical vertex differs from the range carried to it (the       *)
(* global range at the start), and the importer, which starts from the     *)
(* global range and takes the pair of every record of 5 elements, gives    *)
(* every vertex the range of its canonical vertex: in the vertex list of   *)
(* LOD L the vertex has its position iff L is in that range.               *)
VertexRunLengthRoundTrip ==
    pc \in {"call_get_triangles", "collect", "emit", "written", "import"} =>
        /\ Len(vtext) = Len(vertex_data)
        /\ \A k \in DOMAIN vtext :
              /\ Len(vtext[k]) \in {3, 5}
              /\ (Len(vtext[k]) = 5) <=> (VertexRange(k) # CarriedToVertex(k))
              /\ Len(vtext[k]) = 5 => <<vtext[k][4], vtext[k][5]>> = VertexRange(k)
              /\ CarriedRange(vtext, k, <<min_lod, max_lod>>) = VertexRange(k)
        /\ \A l \in min_lod..max_lod :
              LET verts == ParseVertices(vtext, l, min_lod, max_lod)
              IN  /\ Len(verts) = Len(vtext)
                  /\ \A k \in DOMAIN vtext :
                        verts[k] = IF VertexRange(k)[1] <= l /\ l <= VertexRange(k)[2]
                                   THEN <<vtext[k][1], vtext[k][2], vtext[k][3]>>
                                   ELSE <<0, 0, 0>>

\* A vertex array in which a record with a pair is followed by a record that
\* carries its range and, later, by a record whose pair restores the global
\* range
VertexRunLengthWitness ==
    /\ pc = "written"
    /\ \E j, k \in DOMAIN vtext :
          /\ j + 1 < k
          /\ Len(vtext[j]) = 5
          /\ Len(vtext[j + 1]) = 3
          /\ VertexRange(j + 1) # <<min_lod, max_lod>>
          /\ Len(vtext[k]) = 5
          /\ VertexRange(k) = <<min_lod, max_lod>>

----------------------------------------------------------------------------
(* The written numbers against the rounded values they are rendered from *)

(* C23: every written number denotes exactly the rounded value it is       *)
(* rendered from: a vertex record holds the position of its input vertices *)
(* rounded to 3 decimals, a written UV block the UV values rounded to 3    *)
(* decimals and a written normals block the normals rounded to 4 decimals, *)
(* also when the rounded value has more than 6 significant digits.         *)
FormattingLossless ==
    /\ pc \in {"call_get_triangles", "collect", "emit", "written"} =>
          \A a \in DOMAIN vertex_indices :
              LET v == vtext[vertex_indices[a] + 1]
              IN  <<v[1], v[2], v[3]>> = InputVertexSeq(1)[a].pos
    /\ pc = "emit" =>
          \A k \in DOMAIN ttext :
              LET p == polygon_data[k]
                  n == p[1]
                  t0 == ttext[k][1]
                  start == Offs(t0) + n + has_mat(t0, n)
              IN  /\ has_uv(t0, n) # 0 =>
                        \A ix \in 1..(2 * n) : t0[start + ix] = EntryUvs(p)[ix]
                  /\ (Len(ttext[k]) > 1 /\ Len(ttext[k][2]) > 2) =>
                        \A i \in 1..Len(EntryNormals(p)) : ttext[k][2][i] = EntryNormals(p)[i]

----------------------------------------------------------------------------
(* vertex_indices against the input vertices *)

\* The first input vertex that canonical vertex c (0-based) was stored for
FirstOccurrence(c) ==
    CHOOSE a \in DOMAIN vertex_indices :
        vertex_indices[a] = c /\ \A b \in 1..(a - 1) : vertex_indices[b] # c

\* vertex_indices and vertex_data agree with the input vertices processed so far
VertexMapAgrees ==
    /\ Len(vertex_indices) <= Len(InputVertexSeq(1))
    /\ pc = "write_vertices" => Len(vertex_indices) = Len(InputVertexSeq(1))
    /\ \A a \in DOMAIN vertex_indices :
          /\ vertex_indices[a] \in 0..(Len(vertex_data) - 1)
          /\ LET vd == vertex_data[vertex_indices[a] + 1]
             IN  <<vd[1], vd[2], vd[3]>> = InputVertexSeq(1)[a].pos
    /\ \A i \in DOMAIN vertex_data :
          /\ \E a \in DOMAIN vertex_indices : vertex_indices[a] = i - 1
          /\ \A j \in DOMAIN vertex_data :
                i < j => FirstOccurrence(i - 1) < FirstOccurrence(j - 1)

(* C24: each add_vertex call of the vertex pass appends one entry to       *)
(* vertex_indices and leaves the earlier entries, and the position of      *)
(* every stored canonical vertex, as they were; after it vertex_indices    *)
(* has one entry per processed input vertex (at the end of the pass: per   *)
(* input vertex of the objects that are not skipped), entry k being the    *)
(* index of the canonical vertex at the rounded position of input k, and   *)
(* the canonical vertices are in the order of their first occurrence in    *)
(* the input.                                                              *)
VertexIndexMap ==
    [][ pc = "vertex_pass" =>
          /\ Len(vertex_indices') = Len(vertex_indices) + 1
          /\ SubSeq(vertex_indices', 1, Len(vertex_indices)) = vertex_indices
          /\ Len(vertex_data') >= Len(vertex_data)
          /\ \A i \in DOMAIN vertex_data :
                <<vertex_data'[i][1], vertex_data'[i][2], vertex_data'[i][3]>>
                    = <<vertex_data[i][1], vertex_data[i][2], vertex_data[i][3]>>
          /\ VertexMapAgrees'
    ]_vars

\* The end of a vertex pass that skipped an object and merged a vertex into
\* a canonical vertex that is not the last one stored
VertexIndexMapWitness ==
    /\ pc = "write_vertices"
    /\ \E i \in DOMAIN obs : ObjectSkipped(obs[i])
    /\ \E a, b, c \in DOMAIN vertex_indices :
          /\ a < c /\ c < b
          /\ vertex_indices[a] = vertex_indices[b]
          /\ FirstOccurrence(vertex_indices[c]) = c

----------------------------------------------------------------------------
(* add_polygon on the polygons of a stream in another order *)

\* polygon_data after add_polygon was called for the entries es in turn
RECURSIVE MergeAll(_, _)
MergeAll(es, pd) ==
    IF es = <<>> THEN pd ELSE MergeAll(Tail(es), add_polygon(pd, Head(es)))

\* The sequences that hold every element of S once
RECURSIVE Orderings(_)
Orderings(S) ==
    IF S = {} THEN {<<>>}
    ELSE UNION {{<<x>> \o r : r \in Orderings(S \ {x})} : x \in S}

(* C25: when get_triangles has collected the polygons of a stream of a      *)
(* scene, calling add_polygon for the same polygons in any other order,     *)
(* with the same vertex map, retains the same set of entries, each with     *)
(* the same merged LOD range, and as many of them.                          *)
MergeOrderIndependent ==
    (pc = "collect" /\ oi > Len(obs) /\ imported_file = NoFile) =>
        \A f \in Orderings(ProcessedPolygons) :
            LET pd == MergeAll([i \in DOMAIN f |-> SourceEntry(f[i])], <<>>)
            IN  /\ Range(pd) = Range(polygon_data)
                /\ Len(pd) = Len(polygon_data)

\* Four collected polygons of two objects, retained as two entries whose
\* range is that of neither object
MergeOrderIndependentWitness ==
    /\ pc = "collect"
    /\ oi > Len(obs)
    /\ imported_file = NoFile
    /\ Cardinality(ProcessedPolygons) = 4
    /\ Len(polygon_data) = 2
    /\ \A q \in ProcessedPolygons : EntryLOD(SourceEntry(q)) # EntryLOD(polygon_data[1])

----------------------------------------------------------------------------
(* The legacy exporter (io_export_egm.py): write_egm and get_triangles on  *)
(* the loop triangles of the objects.  A triangle is a polygon of three    *)
(* vertices; no object is skipped, no vertex or triangle is merged.        *)

\* Alpha of the colour of each material slot of obs[0] in the scenes of the
\* legacy exporter: slot 0 is transparent
legacy_material_alpha == <<UNIT \div 2, UNIT, UNIT>>

\* "(get_color(mat)[3] < 1)"
LegacyIsTransparent(t) == legacy_material_alpha[t.material_index + 1] < UNIT

\* get_lod_from_object of the legacy exporter: the properties as they are
legacy_get_lod_from_object(ob, minLOD, maxLOD) ==
    << IF ob.minLOD # NoLOD THEN ob.minLOD ELSE minLOD,
       IF ob.maxLOD # NoLOD THEN ob.maxLOD ELSE maxLOD >>

\* get_lod_string: the pair that is appended, nothing for the global range
legacy_get_lod_string(ob, minLOD, maxLOD) ==
    IF legacy_get_lod_from_object(ob, minLOD, maxLOD) # <<minLOD, maxLOD>>
    THEN legacy_get_lod_from_object(ob, minLOD, maxLOD)
    ELSE <<>>

\* "Determining minimum and maximum LOD considering all of the objects"
legacy_lod_range(objects) ==
    LET lo == SetMin({999} \cup {objects[i].minLOD : i \in {j \in DOMAIN objects :
                                                          objects[j].minLOD # NoLOD}})
        hi == SetMax({0 - 1} \cup {objects[i].maxLOD : i \in {j \in DOMAIN objects :
                                                            objects[j].maxLOD # NoLOD}})
    IN  << IF lo >= 999 THEN 0 ELSE lo, IF hi < 0 THEN 4 ELSE hi >>

\* vstart of the legacy write_egm: the number of vertices before object i
RECURSIVE LegacyVstart(_)
LegacyVstart(i) == IF i = 1 THEN 0 ELSE LegacyVstart(i - 1) + Len(obs[i - 1].vertices)

\* The vertex records of the objects from object i on
RECURSIVE LegacyVertexRecords(_)
LegacyVertexRecords(i) ==
    IF i > Len(obs) THEN <<>>
    ELSE [k \in DOMAIN obs[i].vertices |->
             <<f2s3(obs[i].vertices[k].co[1]), f2s3(obs[i].vertices[k].co[2]),
               f2s3(obs[i].vertices[k].co[3])>>
             \o (IF k = 1 THEN legacy_get_lod_string(obs[i], min_lod, max_lod) ELSE <<>>)]
         \o LegacyVertexRecords(i + 1)

\* The carried values with which every call of the legacy get_triangles starts
LegacyStart == [prev_mat |-> 0, prev_normals |-> <<>>, prev_tr |-> 0, prev_lu |-> 0]

\* One iteration of "for t in triangles:" for a triangle of the stream: the
\* record tt, the carried values and uvs after it
LegacyRecord(i, t, st, first, u) ==
    LET ob == obs[i]
        v == t.vertices
        rot == IF v[1] < v[2] /\ v[1] < v[3] THEN 0
               ELSE IF v[2] < v[1] /\ v[2] < v[3] THEN 1 ELSE 2
        c(k) == ((k - 1 + rot) % 3) + 1
        nuv == Flatten([k \in 1..3 |-> <<t.uv[c(k)][1], UNIT - t.uv[c(k)][2]>>])
        uw == first \/ u # nuv
        normals == [k \in 1..3 |-> t.corner_normals[c(k)]]
        split == \E k \in 1..3 : normals[k] # t.normal
        nw == IF split
              THEN Len(st.prev_normals) # 3 \/ st.prev_normals # normals
              ELSE Len(st.prev_normals) # 1 \/ st.prev_normals[1] # t.normal
        tr == legacy_get_group_index(ob, t, "transform")
        lu == legacy_get_group_index(ob, t, "luminosity")
        gw == ~ (tr = st.prev_tr /\ lu = st.prev_lu)
        t0 == <<LegacyVstart(i) + v[c(1)], v[c(2)] - v[c(1)], v[c(3)] - v[c(1)]>>
              \o (IF t.material_index # st.prev_mat THEN <<t.material_index>> ELSE <<>>)
              \o (IF uw THEN MapSeq(f2s3, nuv) ELSE <<>>)
              \o (IF first THEN legacy_get_lod_string(ob, min_lod, max_lod) ELSE <<>>)
        nblock == IF ~ nw THEN <<>>
                  ELSE IF split THEN MapSeq(f2s4, Flatten(normals))
                  ELSE MapSeq(f2s4, t.normal)
    IN  [tt  |-> <<t0>> \o (IF nw \/ gw
                            THEN <<nblock \o (IF gw THEN <<tr, lu>> ELSE <<>>)>>
                            ELSE <<>>),
         st  |-> [prev_mat     |-> t.material_index,
                  prev_normals |-> IF ~ nw THEN st.prev_normals
                                   ELSE IF split THEN normals ELSE <<t.normal>>,
                  prev_tr      |-> tr,
                  prev_lu      |-> lu],
         uvs |-> IF uw THEN nuv ELSE u]

\* ttext of get_triangles(obs, vstart, minLOD, maxLOD, tr) from triangle j of
\* object i on
RECURSIVE LegacyRecords(_, _, _, _, _, _)
LegacyRecords(i, j, tr, st, first, u) ==
    IF i > Len(obs) THEN <<>>
    ELSE IF j > Len(obs[i].polygons) THEN LegacyRecords(i + 1, 1, tr, st, TRUE, <<>>)
    ELSE IF LegacyIsTransparent(obs[i].polygons[j]) # tr
         THEN LegacyRecords(i, j + 1, tr, st, first, u)
    ELSE LET r == LegacyRecord(i, obs[i].polygons[j], st, first, u)
         IN  <<r.tt>> \o LegacyRecords(i, j + 1, tr, r.st, FALSE, r.uvs)

\* The triangles <<object, triangle>> of stream tr in the order of their records
RECURSIVE LegacyStreamTriangles(_, _, _)
LegacyStreamTriangles(i, j, tr) ==
    IF i > Len(obs) THEN <<>>
    ELSE IF j > Len(obs[i].polygons) THEN LegacyStreamTriangles(i + 1, 1, tr)
    ELSE (IF LegacyIsTransparent(obs[i].polygons[j]) = tr THEN << <<i, j>> >> ELSE <<>>)
         \o LegacyStreamTriangles(i, j + 1, tr)

\* The object of every vertex record, in the order of the records
RECURSIVE LegacyVertexOwners(_)
LegacyVertexOwners(i) ==
    IF i > Len(obs) THEN <<>>
    ELSE [k \in DOMAIN obs[i].vertices |-> i] \o LegacyVertexOwners(i + 1)

\* write_egm up to the palette: the LOD range of the file, the file opened
LegacyBegin ==
    /\ pc = "legacy_start"
    /\ min_lod' = legacy_lod_range(obs)[1]
    /\ max_lod' = legacy_lod_range(obs)[2]
    /\ file_state' = "open"
    /\ pc' = "legacy_vertices"
    /\ UNCHANGED <<obs, oi, vi, vertexVars, vtext, gtVars, emitVars, streamVars, importVars>>

\* "Export vertices"
LegacyWriteVertices ==
    /\ pc = "legacy_vertices"
    /\ vstart' = [i \in DOMAIN obs |-> LegacyVstart(i)]
    /\ vindex' = LegacyVstart(Len(obs) + 1)
    /\ vtext' = LegacyVertexRecords(1)
    /\ transparent' = FALSE
    /\ pc' = "legacy_triangles"
    /\ UNCHANGED <<inputVars, file_state, oi, vi, vertex_data, vertex_indices, oindex,
                   polygon_data, emitVars, streamVars, importVars>>

\* One call of get_triangles; after the second one the polygons are written
\* and the file is closed
LegacyGetTriangles ==
    /\ pc = "legacy_triangles"
    /\ IF transparent
       THEN /\ transparent_triangles' = LegacyRecords(1, 1, TRUE, LegacyStart, TRUE, <<>>)
            /\ pc' = "written"
            /\ file_state' = "closed"
            /\ UNCHANGED <<opaque_triangles, transparent>>
       ELSE /\ opaque_triangles' = LegacyRecords(1, 1, FALSE, LegacyStart, TRUE, <<>>)
            /\ transparent' = TRUE
            /\ UNCHANGED <<transparent_triangles, pc, file_state>>
    /\ UNCHANGED <<inputVars, oi, vi, vertexVars, vtext, oindex, polygon_data, emitVars,
                   importVars>>

\* The scenes of the legacy exporter: up to MaxLegacyObs objects of three
\* vertices that differ in their LOD properties and in their mesh: the
\* "transform" weight of its vertices and its triangles (material 0 is
\* transparent)
MaxLegacyObs == 2

LegacyMeshes ==
    { [tw |-> 73700, tris |-> <<Polygon(<<0, 1, 2>>, 1, "A", "s1")>>],
      [tw |-> 0,     tris |-> <<Polygon(<<1, 2, 0>>, 0, "A", "s1")>>],
      [tw |-> 0,     tris |-> <<Polygon(<<0, 1, 2>>, 1, "A", "s1"),
                                Polygon(<<2, 0, 1>>, 0, "B", "s1")>>],
      [tw |-> 73700, tris |-> <<Polygon(<<0, 1, 2>>, 2, "A", "split"),
                                Polygon(<<0, 2, 1>>, 1, "A", "split")>>] }
LegacyLODTags == {<<NoLOD, NoLOD>>, <<1, 2>>, <<0, 4>>, <<2, NoLOD>>}
LegacyItems == [lod : LegacyLODTags, mesh : LegacyMeshes]
LegacyScenes ==
    { [k \in DOMAIN its |-> Object(its[k].lod,
                                   Vertices(SubSeq(Points5, 1, 3), its[k].mesh.tw, 0),
                                   its[k].mesh.tris)]
        : its \in SeqsUpTo(LegacyItems, MaxLegacyObs) }

LegacyInit ==
    /\ obs \in LegacyScenes
    /\ min_lod = 999 /\ max_lod = 0 - 1
    /\ pc = "legacy_start"
    /\ oi = 1 /\ vi = 1
    /\ vstart = <<>> /\ vindex = 0 /\ vertex_data = <<>> /\ vertex_indices = <<>>
    /\ vtext = <<>>
    /\ transparent = FALSE /\ oindex = 0 /\ polygon_data = <<>>
    /\ pk = 1 /\ vcount = InitialVcount /\ prev_mat = InitialPrevMat
    /\ prev_normals = InitialPrevNormals
    /\ prev_tr = InitialPrevGroup /\ prev_lu = InitialPrevGroup
    /\ prevMinLOD = InitialPrevLOD /\ prevMaxLOD = InitialPrevLOD
    /\ uvs = InitialUvs /\ ttext = <<>>
    /\ opaque_triangles = <<>> /\ transparent_triangles = <<>>
    /\ lod = 0 /\ scene_objects = <<>> /\ outcome = "NONE"
    /\ imported_file = NoFile
    /\ file_state = "absent"

LegacyNext ==
    \/ LegacyBegin
    \/ LegacyWriteVertices
    \/ LegacyGetTriangles
    \/ StartImport
    \/ ImportLOD
    \/ FinishImport

LegacySpec == LegacyInit /\ [][LegacyNext]_vars

\* The triangles of the written file in the order of their records
LegacyFileTriangles == LegacyStreamTriangles(1, 1, FALSE) \o LegacyStreamTriangles(1, 1, TRUE)

(* C26: for every file that the legacy exporter writes, the values that    *)
(* the importer carries to each record of the polygons array are the       *)
(* material index, the group pair and the LOD range of the triangle the    *)
(* record was written for, and the range it carries to each vertex record  *)
(* is the LOD range of the vertex's object.                                *)
LegacyCarriedFields ==
    pc = "written" =>
        /\ Len(FilePolygons) = Len(LegacyFileTriangles)
        /\ \A k \in DOMAIN FilePolygons :
              LET ob == obs[LegacyFileTriangles[k][1]]
                  t == ob.polygons[LegacyFileTriangles[k][2]]
                  d == DecodedFile[k]
              IN  /\ d.prevmat = t.material_index
                  /\ <<d.prev_tra, d.prev_lum>>
                        = <<legacy_get_group_index(ob, t, "transform"),
                            legacy_get_group_index(ob, t, "luminosity")>>
                  /\ <<d.prevMinLOD, d.prevMaxLOD>>
                        = legacy_get_lod_from_object(ob, min_lod, max_lod)
        /\ Len(FileVertices) = Len(LegacyVertexOwners(1))
        /\ \A k \in DOMAIN FileVertices :
              CarriedRange(FileVertices, k, <<min_lod, max_lod>>)
                  = legacy_get_lod_from_object(obs[LegacyVertexOwners(1)[k]], min_lod, max_lod)

----------------------------------------------------------------------------
(* The first record of a stream                                            *)

\* Record t has every part that a record can have, as the importer tells them
\* apart: the sentinel, the material, the UV block and the LOD pair in its
\* first sub-array, the normals and the group pair in its second
WritesEverything(t) ==
    LET points == Points(t[1], 3)
    IN  /\ HasSentinel(t[1])
        /\ has_mat(t[1], points) = 1
        /\ has_uv(t[1], points) = 2 * points
        /\ has_lod(t[1], points) = 2
        /\ Len(t) = 2
        /\ Len(t[2]) > 2
        /\ Len(t[2]) % 3 = 2

\* The values that the importer would have for the records of the transparent
\* stream if the polygons array began with them
TransparentAlone ==
    CarriedStates(transparent_triangles, ImporterStart(<<min_lod, max_lod>>))

(* C27: in a written file the first record of each non-empty polygon       *)
(* stream has the sentinel, the material, the UV block, the LOD pair, the  *)
(* normals and the group pair, and the values that the importer has for    *)
(* each record of the transparent stream do not depend on what the records *)
(* of the opaque stream left in its carried state.                         *)
StreamBoundarySelfContained ==
    pc = "written" =>
        /\ \A str \in {opaque_triangles, transparent_triangles} :
              str # <<>> => WritesEverything(str[1])
        /\ \A k \in DOMAIN transparent_triangles :
              DecodedFile[Len(opaque_triangles) + k] = TransparentAlone[k]

\* A file whose first transparent polygon has the vertex count and the LOD
\* range of the last opaque polygon, a range other than the file's, the
\* opaque stream having left a group pair other than the importer's initial
\* one
StreamBoundaryWitness ==
    /\ pc = "written"
    /\ opaque_triangles # <<>>
    /\ transparent_triangles # <<>>
    /\ LET n == Len(opaque_triangles)
           a == DecodedFile[n]
           b == DecodedFile[n + 1]
       IN  /\ a.prevPoints = b.prevPoints
           /\ <<a.prevMinLOD, a.prevMaxLOD>> = <<b.prevMinLOD, b.prevMaxLOD>>
           /\ <<a.prevMinLOD, a.prevMaxLOD>> # <<min_lod, max_lod>>
           /\ <<a.prev_tra, a.prev_lum>> # <<0, 0>>
           /\ <<a.prev_tra, a.prev_lum>> # <<b.prev_tra, b.prev_lum>>

----------------------------------------------------------------------------
(* The LOD range of a polygon against the ranges of its vertices           *)

\* The canonical vertex indices of an entry of polygon_data
EntryVertexIndices(polygon) == RecordIndices(EntryIndices(polygon), polygon[1])

\* The list verts that the importer builds for LOD l of the written file
FileVerts(l) == ParseVertices(FileVertices, l, min_lod, max_lod)

(* C28: the LOD range of every entry of polygon_data lies within the range *)
(* of every entry of vertex_data that it refers to, and at every LOD at    *)
(* which the importer takes a polygon record of the written file into the  *)
(* mesh, each vertex record that the polygon refers to is in force and is  *)
(* in the list verts with the position it has in the file.                 *)
PolygonWithinVertices ==
    /\ pc \in {"collect", "emit"} =>
          \A a \in DOMAIN polygon_data :
              \A c \in Range(EntryVertexIndices(polygon_data[a])) :
                  /\ c + 1 \in DOMAIN vertex_data
                  /\ vertex_data[c + 1][4] <= EntryLOD(polygon_data[a])[1]
                  /\ EntryLOD(polygon_data[a])[2] <= vertex_data[c + 1][5]
    /\ pc = "written" =>
          \A k \in DOMAIN FilePolygons : \A l \in min_lod..max_lod :
              (DecodedFile[k].prevMinLOD <= l /\ DecodedFile[k].prevMaxLOD >= l) =>
                  \A x \in Range(RecordIndices(FilePolygons[k][1], DecodedFile[k].prevPoints)) :
                      /\ x + 1 \in DOMAIN FileVertices
                      /\ CarriedRange(FileVertices, x + 1, <<min_lod, max_lod>>)[1] <= l
                      /\ CarriedRange(FileVertices, x + 1, <<min_lod, max_lod>>)[2] >= l
                      /\ FileVerts(l)[x + 1] = SubSeq(FileVertices[x + 1], 1, 3)

\* A written file with a polygon record that is in the mesh of a LOD at which
\* another vertex is a placeholder, one of the polygon's own vertices having
\* a wider range than the polygon because it was merged
PolygonWithinVerticesWitness ==
    /\ pc = "written"
    /\ \E k \in DOMAIN FilePolygons : \E l \in min_lod..max_lod :
          /\ DecodedFile[k].prevMinLOD <= l
          /\ DecodedFile[k].prevMaxLOD >= l
          /\ \E v \in DOMAIN FileVertices :
                /\ FileVertices[v][1] # 0
                /\ FileVerts(l)[v] = <<0, 0, 0>>
          /\ \E x \in Range(RecordIndices(FilePolygons[k][1], DecodedFile[k].prevPoints)) :
                CarriedRange(FileVertices, x + 1, <<min_lod, max_lod>>)
                    # <<DecodedFile[k].prevMinLOD, DecodedFile[k].prevMaxLOD>>

----------------------------------------------------------------------------
(* The second sub-array of a record                                        *)

\* What the importer's first pass takes the second sub-array of record t to
\* hold for a polygon of `points` corners: "len(t) < 2 or len(t[1]) < 3",
\* "len(t[1]) < 3*points", else
NormalsForm(t, points) ==
    IF Len(t) < 2 \/ Len(t[2]) < 3 THEN "absent"
    ELSE IF Len(t[2]) < 3 * points THEN "shared"
    ELSE "split"

\* "if len(t) > 1 and len(t[1]) % 3 == 2"
HasGroupPair(t) == Len(t) > 1 /\ Len(t[2]) % 3 = 2

\* The values with which the record of polygon_data[k] was compared: those of
\* the entry before it, the initial ones for the first entry
NormalsBefore(k) == IF k = 1 THEN InitialPrevNormals ELSE EntryNormals(polygon_data[k - 1])
GroupsBefore(k) ==
    IF k = 1 THEN <<InitialPrevGroup, InitialPrevGroup>> ELSE EntryGroups(polygon_data[k - 1])

\* The corner normals of an entry of polygon_data as they are written: the
\* shared normal for every corner, or the normal of each corner
WrittenCornerNormals(polygon) ==
    LET ns == MapSeq(f2s4, EntryNormals(polygon))
    IN  [i \in 1..polygon[1] |->
            IF polygon[SplitPos(polygon) + 1] = 1
            THEN <<ns[3 * i - 2], ns[3 * i - 1], ns[3 * i]>>
            ELSE <<ns[1], ns[2], ns[3]>>]

(* C29: for every record that get_triangles has written, the second        *)
(* sub-array has 0 (no sub-array), 2, 3, 5, 3n or 3n+2 elements according  *)
(* to whether the normals and the group pair were written and whether the  *)
(* normals are split, and the importer's tests classify it accordingly:    *)
(* normals absent, shared or split, group pair present or not; the normals *)
(* and the group pair that it reads are the written ones.                  *)
SecondSubArrayClassified ==
    pc = "emit" =>
        \A k \in DOMAIN ttext :
            LET polygon == polygon_data[k]
                t == ttext[k]
                n == polygon[1]
                points == DecodedPoints(ttext, 3)[k]
                nw == NormalsChanged(polygon, NormalsBefore(k))
                gw == GroupsChanged(polygon, GroupsBefore(k)[1], GroupsBefore(k)[2])
                split == polygon[SplitPos(polygon) + 1] = 1
                len == (IF nw THEN (IF split THEN 3 * n ELSE 3) ELSE 0) + (IF gw THEN 2 ELSE 0)
            IN  /\ n >= 3
                /\ points = n
                /\ IF len = 0 THEN Len(t) = 1 ELSE Len(t) = 2 /\ Len(t[2]) = len
                /\ NormalsForm(t, points)
                      = (IF ~ nw THEN "absent" ELSE IF split THEN "split" ELSE "shared")
                /\ HasGroupPair(t) <=> gw
                /\ nw => ReadNormals(t[2], points) = WrittenCornerNormals(polygon)
                /\ gw => <<t[2][Len(t[2]) - 1], t[2][Len(t[2])]>> = EntryGroups(polygon)

\* A finished stream of two quads with the same split normals and different
\* group pairs: a second sub-array of 3n+2 elements and one of 2
SecondSubArrayWitness ==
    /\ pc = "emit"
    /\ Len(ttext) = 2
    /\ polygon_data[1][1] = 4
    /\ Len(ttext[1][2]) = 14
    /\ Len(ttext[2]) = 2
    /\ Len(ttext[2][2]) = 2

----------------------------------------------------------------------------
(* The vertex offsets of the objects that are not skipped                  *)

\* The number of objects before object i that are not skipped
KeptBefore(i) == Cardinality({j \in 1..(i - 1) : Kept(j)})

\* The rounded position of an input vertex
RoundedPosition(v) == <<round3(v.co[1]), round3(v.co[2]), round3(v.co[3])>>

(* C30: write_egm adds vertices and get_triangles adds polygons only for   *)
(* objects that are not skipped; vstart has one entry per object that is   *)
(* not skipped; and when a polygon is passed to add_polygon, oindex is the *)
(* number of such objects before its object, vstart[oindex] is the         *)
(* position of the object's first vertex in vertex_indices, and each       *)
(* canonical vertex that the polygon gets has the rounded position of the  *)
(* polygon's own vertex.                                                   *)
OffsetsAligned ==
    /\ pc = "vertex_pass" =>
          /\ Kept(oi)
          /\ Len(vstart) = KeptBefore(oi) + 1
          /\ vstart[Len(vstart)] = VertexOffset(oi)
    /\ (pc = "collect" /\ oi <= Len(obs)) =>
          /\ Kept(oi)
          /\ Len(vstart) = KeptBefore(Len(obs) + 1)
          /\ oindex = KeptBefore(oi)
          /\ oindex + 1 \in DOMAIN vstart
          /\ vstart[oindex + 1] = VertexOffset(oi)
          /\ \A i \in Range(obs[oi].polygons[vi].vertices) :
                /\ vstart[oindex + 1] + i + 1 \in DOMAIN vertex_indices
                /\ SubSeq(vertex_data[canonical_index(vertex_indices, vstart[oindex + 1], i) + 1],
                          1, 3)
                      = RoundedPosition(obs[oi].vertices[i + 1])

\* A polygon of the second object is passed to add_polygon, the first object
\* being skipped and having vertices at other positions
OffsetsAlignedWitness ==
    /\ pc = "collect"
    /\ Len(obs) = 2
    /\ oi = 2
    /\ ObjectSkipped(obs[1])
    /\ \E i \in Range(obs[2].polygons[vi].vertices) :
          /\ i + 1 \in DOMAIN obs[1].vertices
          /\ RoundedPosition(obs[1].vertices[i + 1]) # RoundedPosition(obs[2].vertices[i + 1])

----------------------------------------------------------------------------
(* The group indices of the imported polygons                              *)

\* The group pair that the exporter's get_group_index resolves for polygon f
\* of the imported object ob from the weights of its vertices
ResolvedGroups(ob, f) ==
    <<get_group_index(ob, ob.polygons[f], "transform"),
      get_group_index(ob, ob.polygons[f], "luminosity")>>

(* C31: after a finished import, get_group_index resolves for every        *)
(* polygon of every LOD mesh, from the vertex weights that the importer    *)
(* has assigned, the group pair that the file gave to that polygon.        *)
GroupIndicesSurvive ==
    (pc = "done" /\ imported_file = NoFile /\ outcome = "FINISHED") =>
        \A k \in DOMAIN scene_objects :
            \A f \in DOMAIN scene_objects[k].polygons :
                ResolvedGroups(scene_objects[k], f) = scene_objects[k].polygons[f].groups

----------------------------------------------------------------------------
(* The LOD range that is derived from the objects                          *)

\* determine_lod_range(obs): the smallest minLOD and the largest maxLOD that
\* an object has, from the start values 999 and -1, then "if minLOD >= 999:
\* minLOD = 0" and "if maxLOD < 0: maxLOD = 4"
determine_lod_range(objects) ==
    LET lo == SetMin({999} \cup {objects[i].minLOD : i \in {j \in DOMAIN objects :
                                                          objects[j].minLOD # NoLOD}})
        hi == SetMax({0 - 1} \cup {objects[i].maxLOD : i \in {j \in DOMAIN objects :
                                                            objects[j].maxLOD # NoLOD}})
    IN  << IF lo >= 999 THEN 0 ELSE lo, IF hi < 0 THEN 4 ELSE hi >>

\* The value that min_lod / max_lod hold after v was assigned to them:
\* IntProperty(min=0, max=4)
IntProperty(v) == Max(0, Min(4, v))

\* ExportEGM.invoke: the LOD limits of the dialog are set from the selected
\* objects; execute runs write_egm with them
Invoke ==
    /\ pc = "invoke"
    /\ min_lod' = IntProperty(determine_lod_range(obs)[1])
    /\ max_lod' = IntProperty(determine_lod_range(obs)[2])
    /\ pc' = "start"
    /\ UNCHANGED <<obs, file_state, oi, vi, vertexVars, vtext, gtVars, emitVars, streamVars,
                   importVars>>

\* The selections from which a range is derived: up to MaxRangeObs objects of
\* one triangle that differ in their LOD properties
MaxRangeObs == 2
RangeTags == {<<NoLOD, NoLOD>>, <<1, 2>>, <<3, NoLOD>>, <<NoLOD, 1>>, <<3, 1>>, <<5, NoLOD>>,
              <<999, NoLOD>>}
RangeScenes ==
    { [k \in DOMAIN tags |-> Object(tags[k], Vertices(SubSeq(Points5, 1, 3), 0, 0),
                                    <<Polygon(<<0, 1, 2>>, 1, "A", "s1")>>)]
        : tags \in SeqsUpTo(RangeTags, MaxRangeObs) }

\* The selection is handed to the operator of the Blender-4 exporter or to
\* write_egm of the legacy exporter
RangeInit ==
    /\ obs \in RangeScenes
    /\ min_lod = 999 /\ max_lod = 0 - 1
    /\ pc \in {"invoke", "legacy_start"}
    /\ oi = 1 /\ vi = 1
    /\ vstart = <<>> /\ vindex = 0 /\ vertex_data = <<>> /\ vertex_indices = <<>>
    /\ vtext = <<>>
    /\ transparent = FALSE /\ oindex = 0 /\ polygon_data = <<>>
    /\ pk = 1 /\ vcount = InitialVcount /\ prev_mat = InitialPrevMat
    /\ prev_normals = InitialPrevNormals
    /\ prev_tr = InitialPrevGroup /\ prev_lu = InitialPrevGroup
    /\ prevMinLOD = InitialPrevLOD /\ prevMaxLOD = InitialPrevLOD
    /\ uvs = InitialUvs /\ ttext = <<>>
    /\ opaque_triangles = <<>> /\ transparent_triangles = <<>>
    /\ lod = 0 /\ scene_objects = <<>> /\ outcome = "NONE"
    /\ imported_file = NoFile
    /\ file_state = "absent"

RangeNext ==
    \/ Invoke
    \/ LegacyBegin

RangeSpec == RangeInit /\ [][RangeNext]_vars

\* The minLOD and the maxLOD properties that the objects have
SpecifiedMinLODs == {obs[i].minLOD : i \in {j \in DOMAIN obs : obs[j].minLOD # NoLOD}}
SpecifiedMaxLODs == {obs[i].maxLOD : i \in {j \in DOMAIN obs : obs[j].maxLOD # NoLOD}}

\* The range that was derived: the value of determine_lod_range(obs) behind
\* the limits of the dialog, and minLOD / maxLOD of the legacy write_egm
DerivedRange ==
    IF pc = "start" THEN determine_lod_range(obs) ELSE <<min_lod, max_lod>>

(* C32: the LOD range that determine_lod_range returns, and the one that   *)
(* the legacy write_egm derives, is (lo, hi) with lo <= hi, lo being the   *)
(* smallest minLOD that an object has, 0 if none has one, and hi the       *)
(* largest maxLOD that an object has, 4 if none has one.                   *)
LODRangeNotInverted ==
    pc \in {"start", "legacy_vertices"} =>
        /\ DerivedRange[1] <= DerivedRange[2]
        /\ DerivedRange[1] = (IF SpecifiedMinLODs = {} THEN 0 ELSE SetMin(SpecifiedMinLODs))
        /\ DerivedRange[2] = (IF SpecifiedMaxLODs = {} THEN 4 ELSE SetMax(SpecifiedMaxLODs))

====
